---- MODULE Spec2Model ----
(***************************************************************************)
(* The shard engine of the history service (historyEngineImpl): the start  *)
(* / signal-with-start / terminate-and-start state machine over one        *)
(* (domain id, workflow id), the execution-cache locks it takes, and the    *)
(* activity completion handler.                                             *)
(*                                                                          *)
(* Spec        : concurrent requests on one workflow id (sections 4.1-4.5)  *)
(* SpecPolicy  : the workflow-id reuse decision as a function of its inputs *)
(* SpecActivity: RespondActivityTaskCompleted under UpdateWithAction        *)
(* SpecHandlers: the five activity handlers                                 *)
(* SpecPoll, SpecPollLive: getMutableStateOrPolling and the notifier         *)
(* SpecQuery   : QueryWorkflow and the query registry of one run            *)
(* SpecFailover, SpecFailoverTraced: the domain failover callback           *)
(* SpecReset   : ResetWorkflowExecution                                     *)
(* SpecReapply : ReapplyEvents                                              *)
(* SpecChildContext: the child context Start takes the current-run lock in  *)
(***************************************************************************)
EXTENDS Integers, Sequences, FiniteSets, TLC

(* ------------------------------ bounds --------------------------------- *)

\* concurrent engine requests
NumRequests == 2
\* failover versions range over 0..MaxVersion
MaxVersion == 1
\* writes to the execution store that bypass this engine's cache
MaxExternalWrites == 1
\* the per-domain MaximumSignalsPerExecution of the model's domain
MaximumSignalsPerExecution == 1

(* ------------------------- program constants --------------------------- *)

\* workflow.ConditionalRetryCount: attempts of every conflict-retry loop
ConditionalRetryCount == 5

NoRun == -1
Nil == [nil |-> TRUE]

Requests == 1 .. NumRequests
\* run 0 is a run the store may already hold when the engine is constructed;
\* run r > 0 is the uuid request r generates (uuid.New() is fresh per call)
Runs == 0 .. NumRequests
Versions == 0 .. MaxVersion
RequestIDs == {"R1", "R2"}

WorkflowStateCreated == "created"
WorkflowStateRunning == "running"
WorkflowStateCompleted == "completed"
WorkflowStateZombie == "zombie"
\* a state value the engine does not name ("unknown type")
WorkflowStateUnknown == "unknown"
WorkflowStates ==
  {WorkflowStateCreated, WorkflowStateRunning, WorkflowStateCompleted, WorkflowStateZombie,
   WorkflowStateUnknown}

WorkflowCloseStatusNone == "none"
WorkflowCloseStatusCompleted == "completed"
WorkflowCloseStatusFailed == "failed"
WorkflowCloseStatusCanceled == "canceled"
WorkflowCloseStatusTerminated == "terminated"
WorkflowCloseStatusContinuedAsNew == "continued-as-new"
WorkflowCloseStatusTimedOut == "timed-out"
CloseStatuses ==
  {WorkflowCloseStatusNone, WorkflowCloseStatusCompleted, WorkflowCloseStatusFailed,
   WorkflowCloseStatusCanceled, WorkflowCloseStatusTerminated,
   WorkflowCloseStatusContinuedAsNew, WorkflowCloseStatusTimedOut}

FailedWorkflowCloseState ==
  {WorkflowCloseStatusFailed, WorkflowCloseStatusCanceled,
   WorkflowCloseStatusTerminated, WorkflowCloseStatusTimedOut}

WorkflowIDReusePolicyAllowDuplicateFailedOnly == "AllowDuplicateFailedOnly"
WorkflowIDReusePolicyAllowDuplicate == "AllowDuplicate"
WorkflowIDReusePolicyRejectDuplicate == "RejectDuplicate"
WorkflowIDReusePolicyTerminateIfRunning == "TerminateIfRunning"
ReusePolicies ==
  {WorkflowIDReusePolicyAllowDuplicateFailedOnly, WorkflowIDReusePolicyAllowDuplicate,
   WorkflowIDReusePolicyRejectDuplicate, WorkflowIDReusePolicyTerminateIfRunning}

TerminateIfRunningDetailsTemplate == "New runID: "

(* ------------------------------ state ---------------------------------- *)

VARIABLES
  current,       \* execution store: the current run of the workflow id, or NoRun
  execs,         \* execution store: run -> persisted execution record, or Nil
  history,       \* history store: run -> persisted events
  cached,        \* execution cache: run -> mutable state its context holds, or Nil
  slotLock,      \* execution cache: holder of the current-run slot lock, or 0
  runLock,       \* execution cache: run -> holder of the run's lock, or 0
  domainVersion, \* failover version of the domain entry
  extWrites,     \* external writes made so far
  rq,            \* request -> its parameters, locals and position
  polIn, polOut, \* SpecPolicy: inputs and result of the reuse decision
  act,           \* SpecActivity: run, token and outcome of the activity handler
  poll,          \* SpecPoll: the polled run, the notifier and the long poll
  qry,           \* SpecQuery: the queried run, its query registry and the queries
  fo,            \* SpecFailover: the queue processors and the failover callback
  rst,           \* SpecReset: the runs of a workflow id and the reset requests
  rap,           \* SpecReapply: the target run and the ReapplyEvents calls
  ctxt,          \* SpecChildContext: the caller's context and the child context
  util,          \* the call of a function of common/util.go under examination
  sig,           \* SignalWorkflowExecution: the run signalled and the calls made
  lif,           \* the lifecycle of the engine: processors, callback, calls
  lck            \* the execution-cache locks of concurrent handlers

startVars ==
  <<current, execs, history, cached, slotLock, runLock, domainVersion, extWrites, rq>>
polVars == <<polIn, polOut>>
actVars == <<act>>
pollVars == <<poll>>
queryVars == <<qry>>
failoverVars == <<fo>>
resetVars == <<rst>>
reapplyVars == <<rap>>
contextVars == <<ctxt>>
utilVars == <<util>>
signalVars == <<sig>>
lifecycleVars == <<lif>>
lockVars == <<lck>>
laterVars == <<utilVars, signalVars, lifecycleVars, lockVars>>
\* what the actions of one specification leave alone
nonStartVars ==
  <<polVars, actVars, pollVars, queryVars, failoverVars,
    resetVars, reapplyVars, contextVars,
    laterVars>>
nonPolicyVars ==
  <<startVars, actVars, pollVars, queryVars, failoverVars,
    resetVars, reapplyVars, contextVars,
    laterVars>>
nonActivityVars ==
  <<startVars, polVars, pollVars, queryVars, failoverVars,
    resetVars, reapplyVars, contextVars,
    laterVars>>
nonPollVars ==
  <<startVars, polVars, actVars, queryVars, failoverVars,
    resetVars, reapplyVars, contextVars,
    laterVars>>
nonQueryVars ==
  <<startVars, polVars, actVars, pollVars, failoverVars,
    resetVars, reapplyVars, contextVars,
    laterVars>>
nonFailoverVars ==
  <<startVars, polVars, actVars, pollVars, queryVars,
    resetVars, reapplyVars, contextVars,
    laterVars>>
nonResetVars ==
  <<startVars, polVars, actVars, pollVars, queryVars, failoverVars, reapplyVars, contextVars,
    laterVars>>
nonReapplyVars ==
  <<startVars, polVars, actVars, pollVars, queryVars, failoverVars, resetVars, contextVars,
    laterVars>>
nonContextVars ==
  <<startVars, polVars, actVars, pollVars, queryVars, failoverVars, resetVars, reapplyVars,
    laterVars>>
earlierVars ==
  <<startVars, polVars, actVars, pollVars, queryVars, failoverVars,
    resetVars, reapplyVars, contextVars>>
nonUtilVars == <<earlierVars, signalVars, lifecycleVars, lockVars>>
nonSignalVars == <<earlierVars, utilVars, lifecycleVars, lockVars>>
nonLifecycleVars == <<earlierVars, utilVars, signalVars, lockVars>>
nonLockVars == <<earlierVars, utilVars, signalVars, lifecycleVars>>
vars ==
  <<startVars, polVars, actVars, pollVars, queryVars, failoverVars,
    resetVars, reapplyVars, contextVars,
    laterVars>>

(* ------------------------- mutable state -------------------------------- *)

Event(type, details) == [type |-> type, details |-> details]

\* execution.NewMutableStateBuilderWithVersionHistories + SetHistoryTree
createMutableState(version, runID) ==
  [runID |-> runID, state |-> WorkflowStateCreated, closeStatus |-> WorkflowCloseStatusNone,
   nextEventID |-> 1, condition |-> 1, lastWriteVersion |-> version,
   currentVersion |-> version, createRequestID |-> "", signalCount |-> 0,
   pendingDecision |-> FALSE, events |-> <<>>]

AddEvent(ms, type, details) ==
  [ms EXCEPT !.events = Append(@, Event(type, details)),
             !.nextEventID = @ + 1,
             !.lastWriteVersion = ms.currentVersion]

IsWorkflowExecutionRunning(ms) ==
  ms.state \in {WorkflowStateCreated, WorkflowStateRunning}

GetLastWriteVersion(ms) == ms.lastWriteVersion
GetCurrentVersion(ms) == ms.currentVersion
HasPendingDecision(ms) == ms.pendingDecision

AddWorkflowExecutionStartedEvent(ms, requestID) ==
  [AddEvent(ms, "WorkflowExecutionStarted", "") EXCEPT !.createRequestID = requestID]

AddWorkflowExecutionSignaled(ms) ==
  [AddEvent(ms, "WorkflowExecutionSignaled", "") EXCEPT !.signalCount = @ + 1]

AddDecisionTaskScheduledEvent(ms) ==
  [AddEvent(ms, "DecisionTaskScheduled", "") EXCEPT !.pendingDecision = TRUE]

\* execution.TerminateWorkflow on a mutable state that accepts the event
TerminateWorkflow(ms, details) ==
  [AddEvent(ms, "WorkflowExecutionTerminated", details) EXCEPT
     !.state = WorkflowStateCompleted,
     !.closeStatus = WorkflowCloseStatusTerminated,
     !.pendingDecision = FALSE]

\* fmt.Sprintf(TerminateIfRunningDetailsTemplate, newRunID)
getTerminateIfRunningDetails(newRunID) ==
  TerminateIfRunningDetailsTemplate \o ToString(newRunID)

\* DecisionTask is only created when it is not a child workflow
generateFirstDecisionTask(ms, hasParent) ==
  IF ~hasParent THEN AddDecisionTaskScheduledEvent(ms) ELSE ms

addStartEventsAndTasks(ms, requestID, hasParent, isSignalWithStart) ==
  LET started == AddWorkflowExecutionStartedEvent(ms, requestID)
      signaled == IF isSignalWithStart THEN AddWorkflowExecutionSignaled(started)
                  ELSE started
  IN  generateFirstDecisionTask(signaled, hasParent)

(* ------------------------ reuse-policy decision ------------------------- *)

ErrAlreadyStarted(requestID, runID) ==
  [err |-> "WorkflowExecutionAlreadyStarted", startRequestID |-> requestID, runID |-> runID]
ErrInternal == [err |-> "InternalServiceError", startRequestID |-> "", runID |-> NoRun]

shouldTerminateAndStart(policy, state) ==
  /\ policy = WorkflowIDReusePolicyTerminateIfRunning
  /\ state \in {WorkflowStateRunning, WorkflowStateCreated}

\* mutant: the running / created case of the first switch is missing
applyWorkflowIDReusePolicyHelper_NoRunningCase(prevStartRequestID, prevRunID, prevState, prevCloseState, policy) ==
  IF prevState \notin {WorkflowStateCreated, WorkflowStateRunning, WorkflowStateCompleted}
    THEN ErrInternal
  ELSE IF policy = WorkflowIDReusePolicyAllowDuplicateFailedOnly
    THEN IF prevCloseState \notin FailedWorkflowCloseState
           THEN ErrAlreadyStarted(prevStartRequestID, prevRunID)
           ELSE Nil
  ELSE IF policy \in {WorkflowIDReusePolicyAllowDuplicate,
                      WorkflowIDReusePolicyTerminateIfRunning}
    THEN Nil
  ELSE ErrAlreadyStarted(prevStartRequestID, prevRunID)

\* mutant: AllowDuplicateFailedOnly takes continued-as-new for a failed close
applyWorkflowIDReusePolicyHelper_ContinuedAsNewFailed(prevStartRequestID, prevRunID, prevState, prevCloseState, policy) ==
  IF prevState \in {WorkflowStateCreated, WorkflowStateRunning}
    THEN ErrAlreadyStarted(prevStartRequestID, prevRunID)
  ELSE IF prevState # WorkflowStateCompleted
    THEN ErrInternal
  ELSE IF policy = WorkflowIDReusePolicyAllowDuplicateFailedOnly
    THEN IF prevCloseState \notin
              FailedWorkflowCloseState \cup {WorkflowCloseStatusContinuedAsNew}
           THEN ErrAlreadyStarted(prevStartRequestID, prevRunID)
           ELSE Nil
  ELSE IF policy \in {WorkflowIDReusePolicyAllowDuplicate,
                      WorkflowIDReusePolicyTerminateIfRunning}
    THEN Nil
  ELSE ErrAlreadyStarted(prevStartRequestID, prevRunID)

\* Nil: the new run may reuse the workflow id
applyWorkflowIDReusePolicyHelper(prevStartRequestID, prevRunID, prevState, prevCloseState, policy) ==
  IF prevState \in {WorkflowStateCreated, WorkflowStateRunning}
    THEN ErrAlreadyStarted(prevStartRequestID, prevRunID)
  ELSE IF prevState # WorkflowStateCompleted
    THEN ErrInternal
  ELSE IF policy = WorkflowIDReusePolicyAllowDuplicateFailedOnly
    THEN IF prevCloseState \notin FailedWorkflowCloseState
           THEN ErrAlreadyStarted(prevStartRequestID, prevRunID)
           ELSE Nil
  ELSE IF policy \in {WorkflowIDReusePolicyAllowDuplicate,
                      WorkflowIDReusePolicyTerminateIfRunning}
    THEN Nil
  ELSE IF policy = WorkflowIDReusePolicyRejectDuplicate
    THEN ErrAlreadyStarted(prevStartRequestID, prevRunID)
  ELSE ErrInternal

applyWorkflowIDReusePolicyForSigWithStart(prevMS, policy) ==
  applyWorkflowIDReusePolicyHelper(
    prevMS.createRequestID, prevMS.runID, prevMS.state, prevMS.closeStatus, policy)

(* -------------------------- execution store ----------------------------- *)

ExecOf(ms) ==
  [state |-> ms.state, closeStatus |-> ms.closeStatus, nextEventID |-> ms.nextEventID,
   lastWriteVersion |-> ms.lastWriteVersion, createRequestID |-> ms.createRequestID,
   signalCount |-> ms.signalCount, pendingDecision |-> ms.pendingDecision]

\* Context.LoadWorkflowExecution from the store (GetWorkflowExecution)
LoadFromStore(u) ==
  [runID |-> u, state |-> execs[u].state, closeStatus |-> execs[u].closeStatus,
   nextEventID |-> execs[u].nextEventID, condition |-> execs[u].nextEventID,
   lastWriteVersion |-> execs[u].lastWriteVersion, currentVersion |-> domainVersion,
   createRequestID |-> execs[u].createRequestID, signalCount |-> execs[u].signalCount,
   pendingDecision |-> execs[u].pendingDecision, events |-> <<>>]

\* Context.LoadWorkflowExecution: the cached mutable state, loaded when absent
LoadWorkflowExecution(u) ==
  IF cached[u] # Nil THEN cached[u] ELSE LoadFromStore(u)

\* the mutable state a context keeps after a transaction closed
Committed(ms) == [ms EXCEPT !.events = <<>>, !.condition = ms.nextEventID]

CreateWorkflowModeBrandNew == "brand-new"
CreateWorkflowModeWorkflowIDReuse == "workflow-id-reuse"

PersistenceAlreadyStarted ==
  [err |-> "persistence.WorkflowExecutionAlreadyStarted",
   startRequestID |-> execs[current].createRequestID, runID |-> current,
   state |-> execs[current].state, closeStatus |-> execs[current].closeStatus,
   lastWriteVersion |-> execs[current].lastWriteVersion]
ErrCurrentWorkflowConditionFailed ==
  [err |-> "CurrentWorkflowConditionFailed", startRequestID |-> "", runID |-> NoRun]

\* mutant: a brand-new creation does not look at the current run
CreateWorkflowExecutionError_BrandNewUnconditional(mode, prevRunID, prevLastWriteVersion) ==
  IF mode = CreateWorkflowModeBrandNew
    THEN Nil
    ELSE IF /\ current = prevRunID
            /\ execs[current].state = WorkflowStateCompleted
            /\ execs[current].lastWriteVersion = prevLastWriteVersion
           THEN Nil
           ELSE ErrCurrentWorkflowConditionFailed

\* the execution store's answer to CreateWorkflowExecution; Nil: created
CreateWorkflowExecutionError(mode, prevRunID, prevLastWriteVersion) ==
  IF mode = CreateWorkflowModeBrandNew
    THEN IF current # NoRun THEN PersistenceAlreadyStarted ELSE Nil
    ELSE IF /\ current = prevRunID
            /\ execs[current].state = WorkflowStateCompleted
            /\ execs[current].lastWriteVersion = prevLastWriteVersion
           THEN Nil
           ELSE ErrCurrentWorkflowConditionFailed

\* the conditional update of a run: its persisted next-event id is the one loaded
UpdateConflicts(ms) == execs[ms.runID].nextEventID # ms.condition

(* ----------------------- requests: common parts ------------------------- *)

NoResponse == [status |-> "none", err |-> "", runID |-> NoRun]
Success(u) == [status |-> "ok", err |-> "", runID |-> u]
Failure(e) == [status |-> "error", err |-> e.err, runID |-> e.runID]
Err(name) == [err |-> name, startRequestID |-> "", runID |-> NoRun]

IdleRequest ==
  [pc |-> "idle", kind |-> "", policy |-> "", requestID |-> "", hasParent |-> FALSE,
   runID |-> NoRun, target |-> NoRun, prev |-> Nil, rms |-> Nil, alias |-> FALSE,
   newMS |-> Nil, attempt |-> 0, t |-> Nil, resp |-> NoResponse]

\* the deferred release functions of request r, run when it returns `response`:
\* every lock it holds is released, and a context released with an error is cleared
ReleaseAll(r, response, c) ==
  /\ slotLock' = IF slotLock = r THEN 0 ELSE slotLock
  /\ runLock' = [u \in Runs |-> IF runLock[u] = r THEN 0 ELSE runLock[u]]
  /\ cached' = [u \in Runs |->
                  IF runLock[u] = r /\ response.status = "error" THEN Nil ELSE c[u]]

\* the request has returned: its locals are gone, what it saw and answered stays
Returned(q, response) ==
  [q EXCEPT !.pc = "done", !.resp = response, !.prev = Nil, !.rms = Nil,
            !.alias = FALSE, !.newMS = Nil]

(* --------------------------- StartWorkflowExecution --------------------- *)

StartWorkflowExecution(r, policy, requestID, hasParent) ==
  /\ rq[r].pc = "idle"
  /\ rq' = [rq EXCEPT ![r] = [@ EXCEPT !.pc = "start_lock", !.kind = "Start",
                                       !.policy = policy, !.requestID = requestID,
                                       !.hasParent = hasParent]]
  /\ UNCHANGED <<current, execs, history, cached, slotLock, runLock, domainVersion, extWrites, nonStartVars>>

\* startWorkflowHelper: the current-run slot lock is acquired
GetOrCreateCurrentWorkflowExecution(r) ==
  /\ rq[r].pc = "start_lock"
  /\ slotLock = 0
  /\ slotLock' = r
  /\ rq' = [rq EXCEPT ![r].pc = "start_prepare"]
  /\ UNCHANGED <<current, execs, history, cached, runLock, domainVersion, extWrites, nonStartVars>>

\* startWorkflowHelper: the child context of the slot lock reaches its deadline
ConcurrentStartRequestTimeout(r) ==
  /\ rq[r].pc = "start_lock"
  /\ slotLock \notin {0, r}
  /\ LET response == Failure(Err("ConcurrentStartRequest"))
     IN  /\ ReleaseAll(r, response, cached)
         /\ rq' = [rq EXCEPT ![r] = Returned(@, response)]
  /\ UNCHANGED <<current, execs, history, domainVersion, extWrites, nonStartVars>>

\* mutant: the first events are not persisted before the creation
PersistFirstWorkflowEvents_Skipped(newWorkflow) ==
  UNCHANGED history

\* wfContext.PersistFirstWorkflowEvents(ctx, newWorkflowEventsSeq[0])
PersistFirstWorkflowEvents(newWorkflow) ==
  history' = [history EXCEPT ![newWorkflow.runID] = newWorkflow.events]

\* startWorkflowHelper from uuid.New() to PersistFirstWorkflowEvents
startWorkflowHelperPrepare(r) ==
  LET q == rq[r]
      isSignalWithStart == q.kind = "SignalWithStart"
      curMutableState == createMutableState(domainVersion, r)
      newWorkflow == addStartEventsAndTasks(curMutableState, q.requestID, q.hasParent,
                                            isSignalWithStart)
      policyErr == IF q.prev = Nil THEN Nil
                   ELSE applyWorkflowIDReusePolicyForSigWithStart(q.prev, q.policy)
  IN
  /\ q.pc = "start_prepare"
  /\ IF q.prev # Nil /\ GetLastWriteVersion(q.prev) > GetCurrentVersion(curMutableState)
       THEN LET response == Failure(Err("DomainNotActive"))
            IN  /\ ReleaseAll(r, response, cached)
                /\ rq' = [rq EXCEPT ![r] = Returned([@ EXCEPT !.runID = r], response)]
                /\ UNCHANGED history
     ELSE IF policyErr # Nil
       THEN LET response == Failure(policyErr)
            IN  /\ ReleaseAll(r, response, cached)
                /\ rq' = [rq EXCEPT ![r] = Returned([@ EXCEPT !.runID = r], response)]
                /\ UNCHANGED history
     ELSE /\ PersistFirstWorkflowEvents(newWorkflow)
          /\ rq' = [rq EXCEPT ![r] = [@ EXCEPT !.pc = "start_create", !.runID = r,
                                               !.newMS = newWorkflow]]
          /\ UNCHANGED <<cached, slotLock, runLock>>
  /\ UNCHANGED <<current, execs, domainVersion, extWrites, nonStartVars>>

\* the new run becomes a persisted execution and the current run
CreateWorkflowExecution(ms) ==
  /\ execs' = [execs EXCEPT ![ms.runID] = ExecOf(ms)]
  /\ current' = ms.runID

\* mutant: the request id is compared after the version and the reuse policy
alreadyStartedResponse_RequestIDLast(q, t) ==
  IF q.kind = "SignalWithStart" /\ t.startRequestID # q.requestID THEN Failure(t)
  ELSE IF GetCurrentVersion(q.newMS) < t.lastWriteVersion
    THEN Failure(Err("DomainNotActive"))
  ELSE IF shouldTerminateAndStart(q.policy, t.state) THEN NoResponse
  ELSE LET policyErr == applyWorkflowIDReusePolicyHelper(
                          t.startRequestID, t.runID, t.state, t.closeStatus, q.policy)
       IN  IF policyErr # Nil /\ t.startRequestID # q.requestID THEN Failure(policyErr)
           ELSE IF t.startRequestID = q.requestID THEN Success(t.runID)
           ELSE NoResponse

\* mutant: terminate-and-start is decided before the version is compared
alreadyStartedResponse_TerminateFirst(q, t) ==
  IF t.startRequestID = q.requestID THEN Success(t.runID)
  ELSE IF q.kind = "SignalWithStart" THEN Failure(t)
  ELSE IF shouldTerminateAndStart(q.policy, t.state) THEN NoResponse
  ELSE IF GetCurrentVersion(q.newMS) < t.lastWriteVersion
    THEN Failure(Err("DomainNotActive"))
  ELSE LET policyErr == applyWorkflowIDReusePolicyHelper(
                          t.startRequestID, t.runID, t.state, t.closeStatus, q.policy)
       IN  IF policyErr # Nil THEN Failure(policyErr) ELSE NoResponse

\* startWorkflowHelper, "handle already started error": the response to the
\* persistence error t of the first CreateWorkflowExecution; NoResponse: go on
\* (to terminate-and-start, or to the creation as workflow-id reuse)
alreadyStartedResponse(q, t) ==
  IF t.startRequestID = q.requestID THEN Success(t.runID)
  ELSE IF q.kind = "SignalWithStart" THEN Failure(t)
  ELSE IF GetCurrentVersion(q.newMS) < t.lastWriteVersion
    THEN Failure(Err("DomainNotActive"))
  ELSE IF shouldTerminateAndStart(q.policy, t.state) THEN NoResponse
  ELSE LET policyErr == applyWorkflowIDReusePolicyHelper(
                          t.startRequestID, t.runID, t.state, t.closeStatus, q.policy)
       IN  IF policyErr # Nil THEN Failure(policyErr) ELSE NoResponse

\* startWorkflowHelper: what follows the already-started error t of request q
reuseDecision(q, t) ==
  LET response == alreadyStartedResponse(q, t)
  IN  IF response # NoResponse THEN IF response.status = "ok" THEN "ok" ELSE response.err
      ELSE IF shouldTerminateAndStart(q.policy, t.state) THEN "terminate-and-start"
      ELSE "workflow-id-reuse"

\* startWorkflowHelper from the first CreateWorkflowExecution to the reuse decision
startWorkflowHelperCreate(r) ==
  LET q == rq[r]
      createMode == IF q.prev # Nil THEN CreateWorkflowModeWorkflowIDReuse
                    ELSE CreateWorkflowModeBrandNew
      prevRunID == IF q.prev # Nil THEN q.prev.runID ELSE NoRun
      prevLastWriteVersion == IF q.prev # Nil THEN GetLastWriteVersion(q.prev) ELSE 0
      err == CreateWorkflowExecutionError(createMode, prevRunID, prevLastWriteVersion)
      response ==
        IF err = Nil THEN Success(q.runID)
        ELSE IF err.err # "persistence.WorkflowExecutionAlreadyStarted" THEN Failure(err)
        ELSE alreadyStartedResponse(q, err)
  IN
  /\ q.pc = "start_create"
  /\ IF err = Nil
       THEN CreateWorkflowExecution(q.newMS)
       ELSE UNCHANGED <<current, execs>>
  /\ IF response # NoResponse
       THEN /\ ReleaseAll(r, response, cached)
            /\ rq' = [rq EXCEPT ![r] = Returned([@ EXCEPT !.t = err], response)]
       ELSE /\ rq' = [rq EXCEPT ![r] =
                        [@ EXCEPT !.t = err, !.target = err.runID,
                                  !.pc = IF reuseDecision(q, err) = "terminate-and-start"
                                           THEN "start_loadonce" ELSE "start_reuse"]]
            /\ UNCHANGED <<cached, slotLock, runLock>>
  /\ UNCHANGED <<history, domainVersion, extWrites, nonStartVars>>

\* startWorkflowHelper: workflow.LoadOnce locks and loads the running prior run
startWorkflowHelperLoadOnce(r) ==
  LET q == rq[r]
      ms == LoadWorkflowExecution(q.target)
  IN
  /\ q.pc = "start_loadonce"
  /\ runLock[q.target] = 0
  /\ runLock' = [runLock EXCEPT ![q.target] = r]
  /\ cached' = [cached EXCEPT ![q.target] = ms]
  /\ rq' = [rq EXCEPT ![r] = [@ EXCEPT !.pc = "tas_attempt", !.rms = ms, !.alias = TRUE,
                                       !.attempt = 0]]
  /\ UNCHANGED <<current, execs, history, slotLock, domainVersion, extWrites, nonStartVars>>

\* startWorkflowHelper: the second CreateWorkflowExecution, as workflow-id reuse
startWorkflowHelperReuse(r) ==
  LET q == rq[r]
      err == CreateWorkflowExecutionError(
               CreateWorkflowModeWorkflowIDReuse, q.t.runID, q.t.lastWriteVersion)
      response == IF err = Nil THEN Success(q.runID) ELSE Failure(err)
  IN
  /\ q.pc = "start_reuse"
  /\ IF err = Nil
       THEN CreateWorkflowExecution(q.newMS)
       ELSE UNCHANGED <<current, execs>>
  /\ ReleaseAll(r, response, cached)
  /\ rq' = [rq EXCEPT ![r] = Returned(@, response)]
  /\ UNCHANGED <<history, domainVersion, extWrites, nonStartVars>>

(* ------------------------- terminate-and-start -------------------------- *)

\* execution.Context.UpdateWorkflowExecutionWithNewAsActive of the context of run u:
\* the store takes the prior run only closed and only while it is the current run
UpdateWithNewError(u) ==
  IF IsWorkflowExecutionRunning(cached[u]) THEN ErrInternal
  ELSE IF current # u THEN ErrCurrentWorkflowConditionFailed
  ELSE IF UpdateConflicts(cached[u]) THEN Err("ErrConflict")
  ELSE Nil

\* one pass of UpdateWorkflowLoop up to addStartEventsAndTasks; `stale` is
\* whether execution.TerminateWorkflow answers ErrStaleState
terminateAndStartWorkflowAttempt(r, stale) ==
  LET q == rq[r]
      u == q.target
      last == q.attempt = ConditionalRetryCount - 1
      terminated == TerminateWorkflow(q.rms, getTerminateIfRunningDetails(q.runID))
      newMutableState ==
        addStartEventsAndTasks(createMutableState(domainVersion, q.runID), q.requestID,
                               q.hasParent, q.kind = "SignalWithStart")
      \* Clear, then ReloadMutableState on every attempt but the last
      reloaded == [cached EXCEPT ![u] = IF last THEN Nil ELSE LoadFromStore(u)]
  IN
  /\ q.pc = "tas_attempt"
  /\ IF ~IsWorkflowExecutionRunning(q.rms)
       THEN LET response == Failure(Err("ErrAlreadyCompleted"))
            IN  /\ ReleaseAll(r, response, cached)
                /\ rq' = [rq EXCEPT ![r] = Returned(@, response)]
     ELSE IF stale /\ last
       \* the loop ends and the function returns its response
       THEN /\ ReleaseAll(r, Success(q.runID), reloaded)
            /\ rq' = [rq EXCEPT ![r] = Returned([@ EXCEPT !.alias = FALSE,
                                                          !.attempt = @ + 1],
                                                Success(q.runID))]
     ELSE IF stale
       THEN /\ cached' = reloaded
            /\ rq' = [rq EXCEPT ![r] = [@ EXCEPT !.alias = FALSE, !.attempt = @ + 1]]
            /\ UNCHANGED <<slotLock, runLock>>
     ELSE /\ cached' = IF q.alias THEN [cached EXCEPT ![u] = terminated] ELSE cached
          /\ rq' = [rq EXCEPT ![r] = [@ EXCEPT !.pc = "tas_update", !.rms = terminated,
                                               !.newMS = newMutableState]]
          /\ UNCHANGED <<slotLock, runLock>>
  /\ UNCHANGED <<current, execs, history, domainVersion, extWrites, nonStartVars>>

\* UpdateWorkflowLoop from UpdateWorkflowExecutionWithNewAsActive to its end
terminateAndStartWorkflowUpdate(r) ==
  LET q == rq[r]
      u == q.target
      ms == cached[u]
      updateErr == UpdateWithNewError(u)
      last == q.attempt = ConditionalRetryCount - 1
      \* the context clears itself when its update fails
      cleared == [cached EXCEPT ![u] = Nil]
  IN
  /\ q.pc = "tas_update"
  /\ IF updateErr = Nil
       THEN /\ execs' = [execs EXCEPT ![u] = ExecOf(ms), ![q.runID] = ExecOf(q.newMS)]
            /\ history' = [history EXCEPT ![u] = @ \o ms.events, ![q.runID] = q.newMS.events]
            /\ current' = q.runID
            /\ ReleaseAll(r, Success(q.runID), [cached EXCEPT ![u] = Committed(ms)])
            /\ rq' = [rq EXCEPT ![r] = Returned(@, Success(q.runID))]
     ELSE IF updateErr.err # "ErrConflict"
       THEN /\ ReleaseAll(r, Failure(updateErr), cleared)
            /\ rq' = [rq EXCEPT ![r] = Returned(@, Failure(updateErr))]
            /\ UNCHANGED <<current, execs, history>>
     ELSE IF last
       \* the loop ends and the function returns its response
       THEN /\ ReleaseAll(r, Success(q.runID), cleared)
            /\ rq' = [rq EXCEPT ![r] = Returned([@ EXCEPT !.alias = FALSE,
                                                          !.attempt = @ + 1],
                                                Success(q.runID))]
            /\ UNCHANGED <<current, execs, history>>
     ELSE /\ cached' = cleared
          /\ rq' = [rq EXCEPT ![r] = [@ EXCEPT !.pc = "tas_attempt", !.alias = FALSE,
                                               !.attempt = @ + 1]]
          /\ UNCHANGED <<current, execs, history, slotLock, runLock>>
  /\ UNCHANGED <<domainVersion, extWrites, nonStartVars>>

(* ------------------- SignalWithStartWorkflowExecution ------------------- *)

\* entry: GetOrCreateWorkflowExecution resolves the current run of the workflow id
SignalWithStartWorkflowExecution(r, policy, requestID) ==
  /\ rq[r].pc = "idle"
  /\ rq' = [rq EXCEPT ![r] =
              [@ EXCEPT !.kind = "SignalWithStart", !.policy = policy,
                        !.requestID = requestID, !.target = current,
                        \* EntityNotExists: create the workflow, then signal
                        !.pc = IF current = NoRun THEN "start_lock" ELSE "sws_lock"]]
  /\ UNCHANGED <<current, execs, history, cached, slotLock, runLock, domainVersion, extWrites, nonStartVars>>

\* GetOrCreateWorkflowExecution: the lock of the resolved run is acquired
signalWithStartLock(r) ==
  /\ rq[r].pc = "sws_lock"
  /\ runLock[rq[r].target] = 0
  /\ runLock' = [runLock EXCEPT ![rq[r].target] = r]
  /\ rq' = [rq EXCEPT ![r] = [@ EXCEPT !.pc = "sws_load", !.attempt = 0]]
  /\ UNCHANGED <<current, execs, history, cached, slotLock, domainVersion, extWrites, nonStartVars>>

\* mutant: a decision task is scheduled whether or not one is pending
signalWithStartSchedule_Always(ms) == AddDecisionTaskScheduledEvent(ms)

\* create a transfer task to schedule a decision task
signalWithStartSchedule(ms) ==
  IF ~HasPendingDecision(ms) THEN AddDecisionTaskScheduledEvent(ms) ELSE ms

\* Just_Signal_Loop from LoadWorkflowExecution to the events added in memory
signalWithStartLoad(r) ==
  LET q == rq[r]
      u == q.target
      mutableState == LoadWorkflowExecution(u)
      loaded == [cached EXCEPT ![u] = mutableState]
      signaled == AddWorkflowExecutionSignaled(mutableState)
      scheduled == signalWithStartSchedule(signaled)
  IN
  /\ q.pc = "sws_load"
  /\ IF ~IsWorkflowExecutionRunning(mutableState)
       \* workflow exists but is not running: restart it, then signal
       THEN /\ cached' = loaded
            /\ rq' = [rq EXCEPT ![r] = [@ EXCEPT !.pc = "start_lock", !.prev = mutableState]]
            /\ UNCHANGED <<slotLock, runLock>>
     ELSE IF q.policy = WorkflowIDReusePolicyTerminateIfRunning
       THEN /\ cached' = loaded
            /\ rq' = [rq EXCEPT ![r] = [@ EXCEPT !.pc = "tas_attempt", !.runID = r,
                                                 !.rms = mutableState, !.alias = TRUE,
                                                 !.attempt = 0]]
            /\ UNCHANGED <<slotLock, runLock>>
     ELSE IF /\ MaximumSignalsPerExecution > 0
             /\ mutableState.signalCount >= MaximumSignalsPerExecution
       THEN LET response == Failure(Err("ErrSignalsLimitExceeded"))
            IN  /\ ReleaseAll(r, response, loaded)
                /\ rq' = [rq EXCEPT ![r] = Returned(@, response)]
     ELSE /\ cached' = [cached EXCEPT ![u] = scheduled]
          /\ rq' = [rq EXCEPT ![r].pc = "sws_update"]
          /\ UNCHANGED <<slotLock, runLock>>
  /\ UNCHANGED <<current, execs, history, domainVersion, extWrites, nonStartVars>>

\* Just_Signal_Loop: UpdateWorkflowExecutionAsActive and what follows it
signalWithStartUpdate(r) ==
  LET q == rq[r]
      u == q.target
      ms == cached[u]
      cleared == [cached EXCEPT ![u] = Nil]
  IN
  /\ q.pc = "sws_update"
  /\ IF ~UpdateConflicts(ms)
       THEN /\ execs' = [execs EXCEPT ![u] = ExecOf(ms)]
            /\ history' = [history EXCEPT ![u] = @ \o ms.events]
            /\ ReleaseAll(r, Success(u), [cached EXCEPT ![u] = Committed(ms)])
            /\ rq' = [rq EXCEPT ![r] = Returned(@, Success(u))]
     ELSE IF q.attempt + 1 = ConditionalRetryCount
       THEN LET response == Failure(Err("ErrMaxAttemptsExceeded"))
            IN  /\ ReleaseAll(r, response, cleared)
                /\ rq' = [rq EXCEPT ![r] = Returned([@ EXCEPT !.attempt = @ + 1], response)]
                /\ UNCHANGED <<execs, history>>
     ELSE /\ cached' = cleared
          /\ rq' = [rq EXCEPT ![r] = [@ EXCEPT !.pc = "sws_load", !.attempt = @ + 1]]
          /\ UNCHANGED <<execs, history, slotLock, runLock>>
  /\ UNCHANGED <<current, domainVersion, extWrites, nonStartVars>>

(* -------------------------- RefreshWorkflowTasks ------------------------ *)

RefreshWorkflowTasks(r, u) ==
  /\ rq[r].pc = "idle"
  /\ execs[u] # Nil
  /\ rq' = [rq EXCEPT ![r] = [@ EXCEPT !.kind = "RefreshWorkflowTasks", !.target = u,
                                       !.pc = "refresh_lock"]]
  /\ UNCHANGED <<current, execs, history, cached, slotLock, runLock, domainVersion, extWrites, nonStartVars>>

\* mutant: the context is used without the lock of the execution cache
refreshLock_NoLock(r) ==
  /\ rq[r].pc = "refresh_lock"
  /\ rq' = [rq EXCEPT ![r].pc = "refresh_load"]
  /\ UNCHANGED <<current, execs, history, cached, slotLock, runLock, domainVersion,
                 extWrites, nonStartVars>>

\* GetOrCreateWorkflowExecution: the lock of the run is acquired
refreshLock(r) ==
  /\ rq[r].pc = "refresh_lock"
  /\ runLock[rq[r].target] = 0
  /\ runLock' = [runLock EXCEPT ![rq[r].target] = r]
  /\ rq' = [rq EXCEPT ![r].pc = "refresh_load"]
  /\ UNCHANGED <<current, execs, history, cached, slotLock, domainVersion, extWrites, nonStartVars>>

\* LoadWorkflowExecution, the running check and RefreshTasks
refreshLoad(r) ==
  LET q == rq[r]
      u == q.target
      mutableState == LoadWorkflowExecution(u)
      loaded == [cached EXCEPT ![u] = mutableState]
  IN
  /\ q.pc = "refresh_load"
  /\ IF ~IsWorkflowExecutionRunning(mutableState)
       THEN /\ ReleaseAll(r, Success(NoRun), loaded)
            /\ rq' = [rq EXCEPT ![r] = Returned(@, Success(NoRun))]
       ELSE /\ cached' = loaded
            /\ rq' = [rq EXCEPT ![r].pc = "refresh_update"]
            /\ UNCHANGED <<slotLock, runLock>>
  /\ UNCHANGED <<current, execs, history, domainVersion, extWrites, nonStartVars>>

\* UpdateWorkflowExecutionAsActive; its error is returned as it is
refreshUpdate(r) ==
  LET q == rq[r]
      u == q.target
      ms == cached[u]
      response == IF UpdateConflicts(ms) THEN Failure(Err("ErrConflict"))
                  ELSE Success(NoRun)
  IN
  /\ q.pc = "refresh_update"
  /\ ReleaseAll(r, response,
                [cached EXCEPT ![u] = IF UpdateConflicts(ms) THEN Nil ELSE Committed(ms)])
  /\ rq' = [rq EXCEPT ![r] = Returned(@, response)]
  /\ UNCHANGED <<current, execs, history, domainVersion, extWrites, nonStartVars>>

(* ------------------------------ environment ----------------------------- *)

\* another handler of this engine closes a running run; it holds the run's lock
\* for its whole load-mutate-commit cycle, which is one step here
CloseWorkflow(u, closeStatus) ==
  /\ execs[u] # Nil
  /\ execs[u].state \in {WorkflowStateCreated, WorkflowStateRunning}
  /\ runLock[u] = 0
  /\ execs' = [execs EXCEPT ![u] = [@ EXCEPT !.state = WorkflowStateCompleted,
                                             !.closeStatus = closeStatus,
                                             !.nextEventID = @ + 1,
                                             !.pendingDecision = FALSE]]
  /\ history' = [history EXCEPT ![u] = Append(@, Event("WorkflowExecutionClosed", closeStatus))]
  /\ cached' = [cached EXCEPT ![u] = Nil]
  /\ UNCHANGED <<current, slotLock, runLock, domainVersion, extWrites, rq, nonStartVars>>

\* a write to the execution store that does not go through this engine's cache
\* (replication applied elsewhere, a former owner of the shard)
ExternalWrite(u, version) ==
  /\ extWrites < MaxExternalWrites
  /\ execs[u] # Nil
  /\ version >= execs[u].lastWriteVersion
  /\ execs' = [execs EXCEPT ![u] = [@ EXCEPT !.nextEventID = @ + 1,
                                             !.lastWriteVersion = version]]
  /\ history' = [history EXCEPT ![u] = Append(@, Event("ExternalEvent", ""))]
  /\ extWrites' = extWrites + 1
  /\ UNCHANGED <<current, cached, slotLock, runLock, domainVersion, rq, nonStartVars>>

(* ---------------------------- specification ----------------------------- *)

\* the run the store may hold at construction: running, created by request id R1
PriorRun ==
  [state |-> WorkflowStateRunning, closeStatus |-> WorkflowCloseStatusNone,
   nextEventID |-> 3, lastWriteVersion |-> 0, createRequestID |-> "R1",
   signalCount |-> 0, pendingDecision |-> TRUE]
PriorHistory == <<Event("WorkflowExecutionStarted", ""), Event("DecisionTaskScheduled", "")>>

PolicyIdle == polIn = Nil /\ polOut = Nil
ActivityIdle == act = Nil
PollIdle == poll = Nil
QueryIdle == qry = Nil
FailoverIdle == fo = Nil
ResetIdle == rst = Nil
ReapplyIdle == rap = Nil
ContextIdle == ctxt = Nil
UtilIdle == util = Nil
SignalIdle == sig = Nil
LifecycleIdle == lif = Nil
LockIdle == lck = Nil
LaterIdle == UtilIdle /\ SignalIdle /\ LifecycleIdle /\ LockIdle
\* every part of the engine other than the start state machine is at rest
EarlierIdle ==
  /\ PolicyIdle /\ ActivityIdle /\ PollIdle /\ QueryIdle /\ FailoverIdle
  /\ ResetIdle /\ ReapplyIdle /\ ContextIdle

\* the engine after construction over a store that holds run 0 (prior) or nothing
StartInit(prior) ==
  /\ current = IF prior THEN 0 ELSE NoRun
  /\ execs = [u \in Runs |-> IF prior /\ u = 0 THEN PriorRun ELSE Nil]
  /\ history = [u \in Runs |-> IF prior /\ u = 0 THEN PriorHistory ELSE <<>>]
  /\ cached = [u \in Runs |-> Nil]
  /\ slotLock = 0
  /\ runLock = [u \in Runs |-> 0]
  /\ extWrites = 0
  /\ rq = [r \in Requests |-> IdleRequest]

Init ==
  /\ \E prior \in BOOLEAN : StartInit(prior)
  /\ domainVersion \in 0 .. MaxVersion - 1
  /\ PolicyIdle
  /\ ActivityIdle
  /\ PollIdle /\ QueryIdle /\ FailoverIdle
  /\ ResetIdle /\ ReapplyIdle /\ ContextIdle /\ LaterIdle

RequestStep(r) ==
  \/ \E policy \in ReusePolicies, requestID \in RequestIDs, hasParent \in BOOLEAN :
       StartWorkflowExecution(r, policy, requestID, hasParent)
  \/ GetOrCreateCurrentWorkflowExecution(r)
  \/ ConcurrentStartRequestTimeout(r)
  \/ startWorkflowHelperPrepare(r)
  \/ startWorkflowHelperCreate(r)
  \/ startWorkflowHelperLoadOnce(r)
  \/ startWorkflowHelperReuse(r)
  \/ \E stale \in BOOLEAN : terminateAndStartWorkflowAttempt(r, stale)
  \/ terminateAndStartWorkflowUpdate(r)
  \/ \E policy \in ReusePolicies, requestID \in RequestIDs :
       SignalWithStartWorkflowExecution(r, policy, requestID)
  \/ signalWithStartLock(r)
  \/ signalWithStartLoad(r)
  \/ signalWithStartUpdate(r)
  \/ \E u \in Runs : RefreshWorkflowTasks(r, u)
  \/ refreshLock(r)
  \/ refreshLoad(r)
  \/ refreshUpdate(r)

\* the close statuses other handlers leave: one outside FailedWorkflowCloseState,
\* one inside it
EnvCloseStatuses == {WorkflowCloseStatusCompleted, WorkflowCloseStatusTimedOut}

Environment ==
  \/ \E u \in Runs, closeStatus \in EnvCloseStatuses : CloseWorkflow(u, closeStatus)
  \/ \E u \in Runs, version \in Versions : ExternalWrite(u, version)

Next ==
  \/ \E r \in Requests : RequestStep(r)
  \/ Environment

Spec == Init /\ [][Next]_vars

(* ------------- SpecPolicy: the reuse decision over all its inputs -------- *)

\* a Start with request id R2 whose creation met a run created by request id R1,
\* written at the version of the new mutable state
PolicyRequest(policy) ==
  [IdleRequest EXCEPT !.kind = "Start", !.policy = policy, !.requestID = "R2",
                      !.runID = 1, !.newMS = createMutableState(0, 1)]
PolicyPrior(state, closeStatus) ==
  [err |-> "persistence.WorkflowExecutionAlreadyStarted", startRequestID |-> "R1",
   runID |-> 0, state |-> state, closeStatus |-> closeStatus, lastWriteVersion |-> 0]

PolicyInit ==
  /\ polIn \in [state : WorkflowStates, closeStatus : CloseStatuses, policy : ReusePolicies]
  /\ polOut = Nil
  /\ StartInit(FALSE)
  /\ domainVersion = 0
  /\ ActivityIdle
  /\ PollIdle /\ QueryIdle /\ FailoverIdle
  /\ ResetIdle /\ ReapplyIdle /\ ContextIdle /\ LaterIdle

ApplyReusePolicy ==
  /\ polOut = Nil
  /\ polOut' = [decision |-> reuseDecision(PolicyRequest(polIn.policy),
                                           PolicyPrior(polIn.state, polIn.closeStatus))]
  /\ UNCHANGED <<polIn, nonPolicyVars>>

PolicyNext == ApplyReusePolicy

SpecPolicy == PolicyInit /\ [][PolicyNext]_vars

(* ------------- SpecActivity, SpecHandlers: the activity handlers --------- *)

\* the largest attempt of an activity and of a task token
MaxActivityAttempt == 1
\* common.EmptyEventID
EmptyEventID == -23

ActivityIDs == {"a1", "a2"}
ActivityAttempts == 0 .. MaxActivityAttempt

\* the pending activity "a1", scheduled by event 5 and started (or not) by event 6
ActivityInfo(started, attempt) ==
  [ScheduleID |-> 5, ActivityID |-> "a1",
   StartedID |-> IF started THEN 6 ELSE EmptyEventID, Attempt |-> attempt,
   RequestID |-> IF started THEN "q1" ELSE "", CancelRequested |-> FALSE,
   Details |-> "", LastHeartBeatUpdatedTime |-> 0, HasRetryLeft |-> FALSE]
\* the mutable state of the run the token names, as the store holds it
ActivityMutableState(running, pending) ==
  [running |-> running, nextEventID |-> 8, condition |-> 8,
   pendingActivities |-> pending, pendingDecision |-> FALSE, events |-> <<>>]
\* a cached mutable state that predates the scheduling of the activity
StaleMutableState(running) ==
  [running |-> running, nextEventID |-> 5, condition |-> 5,
   pendingActivities |-> {}, pendingDecision |-> FALSE, events |-> <<>>]
TaskTokens ==
  [ScheduleID : {EmptyEventID, 5, 9}, ActivityID : ActivityIDs \cup {""},
   ScheduleAttempt : ActivityAttempts, RequestID : {"q1"}, Details : {"d1"}]

\* mutableState.GetActivityInfo(scheduleID)
GetActivityInfo(ms, scheduleID) ==
  {ai \in ms.pendingActivities : ai.ScheduleID = scheduleID}
\* mutableState.GetActivityByActivityID(activityID)
GetActivityByActivityID(ms, activityID) ==
  {ai \in ms.pendingActivities : ai.ActivityID = activityID}
\* mutableState.AddActivityTaskCompletedEvent(scheduleID, startedID, request)
AddActivityTaskCompletedEvent(ms, scheduleID, startedID) ==
  [ms EXCEPT !.nextEventID = @ + 1,
             !.pendingActivities = {ai \in @ : ai.ScheduleID # scheduleID},
             !.events = Append(@, [type |-> "ActivityTaskCompleted",
                                   scheduleID |-> scheduleID, startedID |-> startedID])]

\* getScheduleID: the schedule id of the pending activity with that activity id
getScheduleID(activityID, ms) ==
  IF activityID = ""
    THEN [err |-> "BadRequest", scheduleID |-> 0]
  ELSE IF GetActivityByActivityID(ms, activityID) = {}
    THEN [err |-> "BadRequest", scheduleID |-> 0]
  ELSE [err |-> "",
        scheduleID |-> (CHOOSE ai \in GetActivityByActivityID(ms, activityID) : TRUE).ScheduleID]

\* the schedule id the action works on
tokenScheduleID(token, ms) ==
  IF token.ScheduleID = EmptyEventID
    THEN getScheduleID(token.ActivityID, ms)
    ELSE [err |-> "", scheduleID |-> token.ScheduleID]

\* mutant: the attempt of the token is not compared
respondActivityTaskCompletedAction_NoAttemptCheck(token, ms) ==
  IF ~ms.running THEN "AlreadyCompleted"
  ELSE LET sid == tokenScheduleID(token, ms)
           found == GetActivityInfo(ms, sid.scheduleID)
       IN  IF sid.err # "" THEN sid.err
           ELSE IF found = {} /\ sid.scheduleID >= ms.nextEventID THEN "StaleState"
           ELSE IF found = {} THEN "ActivityTaskNotFound"
           ELSE IF (CHOOSE ai \in found : TRUE).StartedID = EmptyEventID
             THEN "ActivityTaskNotFound"
           ELSE ""

\* RespondActivityTaskCompleted, the action passed to UpdateWithAction: its error,
\* "" when the ActivityTaskCompleted event is added
respondActivityTaskCompletedAction(token, ms) ==
  IF ~ms.running THEN "AlreadyCompleted"
  ELSE LET sid == tokenScheduleID(token, ms)
           found == GetActivityInfo(ms, sid.scheduleID)
       IN  IF sid.err # "" THEN sid.err
           ELSE IF found = {} /\ sid.scheduleID >= ms.nextEventID THEN "StaleState"
           ELSE IF found = {} THEN "ActivityTaskNotFound"
           ELSE LET ai == CHOOSE a \in found : TRUE
                IN  IF \/ ai.StartedID = EmptyEventID
                       \/ (token.ScheduleID # EmptyEventID
                             /\ token.ScheduleAttempt # ai.Attempt)
                      THEN "ActivityTaskNotFound"
                      ELSE ""

\* the mutable state after the action returned nil
respondActivityTaskCompletedEffect(token, ms) ==
  LET sid == tokenScheduleID(token, ms).scheduleID
      ai == CHOOSE a \in GetActivityInfo(ms, sid) : TRUE
  IN  AddActivityTaskCompletedEvent(ms, sid, ai.StartedID)

\* mutableState.AddActivityTaskStartedEvent(ai, scheduleID, requestID, identity)
AddActivityTaskStartedEvent(ms, scheduleID, requestID) ==
  [ms EXCEPT !.nextEventID = @ + 1,
             !.pendingActivities =
                {IF ai.ScheduleID = scheduleID
                   THEN [ai EXCEPT !.StartedID = ms.nextEventID, !.RequestID = requestID]
                   ELSE ai : ai \in @},
             !.events = Append(@, [type |-> "ActivityTaskStarted",
                                   scheduleID |-> scheduleID, startedID |-> ms.nextEventID])]
\* mutableState.AddActivityTaskFailedEvent(scheduleID, startedID, request)
AddActivityTaskFailedEvent(ms, scheduleID, startedID) ==
  [ms EXCEPT !.nextEventID = @ + 1,
             !.pendingActivities = {ai \in @ : ai.ScheduleID # scheduleID},
             !.events = Append(@, [type |-> "ActivityTaskFailed",
                                   scheduleID |-> scheduleID, startedID |-> startedID])]
\* mutableState.AddActivityTaskCanceledEvent(scheduleID, startedID, ...)
AddActivityTaskCanceledEvent(ms, scheduleID, startedID) ==
  [ms EXCEPT !.nextEventID = @ + 1,
             !.pendingActivities = {ai \in @ : ai.ScheduleID # scheduleID},
             !.events = Append(@, [type |-> "ActivityTaskCanceled",
                                   scheduleID |-> scheduleID, startedID |-> startedID])]
\* mutableState.RetryActivity(ai, reason, details): with attempts left the activity
\* is scheduled again as its next attempt and no event is added
RetryActivity(ms, scheduleID) ==
  [ms EXCEPT !.pendingActivities =
                {IF ai.ScheduleID = scheduleID
                   THEN [ai EXCEPT !.Attempt = @ + 1, !.StartedID = EmptyEventID,
                                   !.RequestID = "", !.HasRetryLeft = FALSE]
                   ELSE ai : ai \in @}]
\* mutableState.UpdateActivityProgress(ai, request)
UpdateActivityProgress(ms, scheduleID, details) ==
  [ms EXCEPT !.pendingActivities =
                {IF ai.ScheduleID = scheduleID
                   THEN [ai EXCEPT !.Details = details, !.LastHeartBeatUpdatedTime = 1]
                   ELSE ai : ai \in @}]
\* the decision task the driver schedules after the action when asked to
ScheduleDecision(ms) ==
  IF ms.pendingDecision THEN ms
  ELSE [ms EXCEPT !.nextEventID = @ + 1, !.pendingDecision = TRUE,
                  !.events = Append(@, [type |-> "DecisionTaskScheduled",
                                        scheduleID |-> ms.nextEventID,
                                        startedID |-> EmptyEventID])]

\* mutant: an activity started by another request is answered like a missing one
recordActivityTaskStartedAction_StartedIsNotFound(request, ms) ==
  IF ~ms.running THEN "AlreadyCompleted"
  ELSE LET found == GetActivityInfo(ms, request.ScheduleID)
       IN  IF found = {} /\ request.ScheduleID >= ms.nextEventID THEN "StaleState"
           ELSE IF found = {} THEN "ActivityTaskNotFound"
           ELSE LET ai == CHOOSE a \in found : TRUE
                IN  IF ai.StartedID # EmptyEventID /\ ai.RequestID # request.RequestID
                      THEN "ActivityTaskNotFound"
                      ELSE ""

\* RecordActivityTaskStarted, the action passed to UpdateWithAction
recordActivityTaskStartedAction(request, ms) ==
  IF ~ms.running THEN "AlreadyCompleted"
  ELSE LET found == GetActivityInfo(ms, request.ScheduleID)
       IN  IF found = {} /\ request.ScheduleID >= ms.nextEventID THEN "StaleState"
           ELSE IF found = {} THEN "ActivityTaskNotFound"
           ELSE LET ai == CHOOSE a \in found : TRUE
                IN  IF ai.StartedID # EmptyEventID /\ ai.RequestID # request.RequestID
                      THEN "EventAlreadyStarted"
                      ELSE ""

\* RecordActivityTaskStarted: the mutable state after the action returned nil
recordActivityTaskStartedEffect(request, ms) ==
  LET ai == CHOOSE a \in GetActivityInfo(ms, request.ScheduleID) : TRUE
  IN  IF ai.StartedID # EmptyEventID
        THEN ms
        ELSE AddActivityTaskStartedEvent(ms, request.ScheduleID, request.RequestID)

\* RespondActivityTaskFailed, the action passed to UpdateWithActionFunc
respondActivityTaskFailedAction(token, ms) ==
  IF ~ms.running THEN "AlreadyCompleted"
  ELSE LET sid == tokenScheduleID(token, ms)
           found == GetActivityInfo(ms, sid.scheduleID)
       IN  IF sid.err # "" THEN sid.err
           ELSE IF found = {} /\ sid.scheduleID >= ms.nextEventID THEN "StaleState"
           ELSE IF found = {} THEN "ActivityTaskNotFound"
           ELSE LET ai == CHOOSE a \in found : TRUE
                IN  IF \/ ai.StartedID = EmptyEventID
                       \/ (token.ScheduleID # EmptyEventID
                             /\ token.ScheduleAttempt # ai.Attempt)
                      THEN "ActivityTaskNotFound"
                      ELSE ""

\* RespondActivityTaskFailed: the mutable state after the action returned nil
respondActivityTaskFailedEffect(token, ms) ==
  LET sid == tokenScheduleID(token, ms).scheduleID
      ai == CHOOSE a \in GetActivityInfo(ms, sid) : TRUE
  IN  IF ai.HasRetryLeft
        THEN RetryActivity(ms, sid)
        ELSE AddActivityTaskFailedEvent(ms, sid, ai.StartedID)

\* mutant: a decision is requested whether or not the activity is retried
respondActivityTaskFailedCreateDecision_Always(token, ms) == TRUE

\* RespondActivityTaskFailed: postActions.CreateDecision
respondActivityTaskFailedCreateDecision(token, ms) ==
  LET sid == tokenScheduleID(token, ms).scheduleID
      ai == CHOOSE a \in GetActivityInfo(ms, sid) : TRUE
  IN  ~ai.HasRetryLeft

\* RespondActivityTaskCanceled, the action passed to UpdateWithAction
respondActivityTaskCanceledAction(token, ms) ==
  IF ~ms.running THEN "AlreadyCompleted"
  ELSE LET sid == tokenScheduleID(token, ms)
           found == GetActivityInfo(ms, sid.scheduleID)
       IN  IF sid.err # "" THEN sid.err
           ELSE IF found = {} /\ sid.scheduleID >= ms.nextEventID THEN "StaleState"
           ELSE IF found = {} THEN "ActivityTaskNotFound"
           ELSE LET ai == CHOOSE a \in found : TRUE
                IN  IF \/ ai.StartedID = EmptyEventID
                       \/ (token.ScheduleID # EmptyEventID
                             /\ token.ScheduleAttempt # ai.Attempt)
                      THEN "ActivityTaskNotFound"
                      ELSE ""

\* RespondActivityTaskCanceled: the mutable state after the action returned nil
respondActivityTaskCanceledEffect(token, ms) ==
  LET sid == tokenScheduleID(token, ms).scheduleID
      ai == CHOOSE a \in GetActivityInfo(ms, sid) : TRUE
  IN  AddActivityTaskCanceledEvent(ms, sid, ai.StartedID)

\* RecordActivityTaskHeartbeat, the action passed to UpdateWithAction
recordActivityTaskHeartbeatAction(token, ms) ==
  IF ~ms.running THEN "AlreadyCompleted"
  ELSE LET sid == tokenScheduleID(token, ms)
           found == GetActivityInfo(ms, sid.scheduleID)
       IN  IF sid.err # "" THEN sid.err
           ELSE IF found = {} /\ sid.scheduleID >= ms.nextEventID THEN "StaleState"
           ELSE IF found = {} THEN "ActivityTaskNotFound"
           ELSE LET ai == CHOOSE a \in found : TRUE
                IN  IF \/ ai.StartedID = EmptyEventID
                       \/ (token.ScheduleID # EmptyEventID
                             /\ token.ScheduleAttempt # ai.Attempt)
                      THEN "ActivityTaskNotFound"
                      ELSE ""

\* mutant: the heartbeat is recorded as an event of the history
recordActivityTaskHeartbeatEffect_AppendsEvent(token, ms) ==
  LET sid == tokenScheduleID(token, ms).scheduleID
  IN  [UpdateActivityProgress(ms, sid, token.Details) EXCEPT
         !.nextEventID = @ + 1,
         !.events = Append(@, [type |-> "ActivityTaskHeartbeat", scheduleID |-> sid,
                               startedID |-> EmptyEventID])]

\* RecordActivityTaskHeartbeat: the mutable state after the action returned nil
recordActivityTaskHeartbeatEffect(token, ms) ==
  UpdateActivityProgress(ms, tokenScheduleID(token, ms).scheduleID, token.Details)

\* RecordActivityTaskHeartbeat: cancelRequested = ai.CancelRequested
recordActivityTaskHeartbeatCancelRequested(token, ms) ==
  LET sid == tokenScheduleID(token, ms).scheduleID
  IN  (CHOOSE a \in GetActivityInfo(ms, sid) : TRUE).CancelRequested

\* RecordActivityTaskHeartbeat: the response returned with the driver's error
recordActivityTaskHeartbeatResponse(err, cancelRequested) ==
  IF err # "" THEN [CancelRequested |-> FALSE] ELSE [CancelRequested |-> cancelRequested]

ActivityHandlers ==
  {"RecordActivityTaskStarted", "RespondActivityTaskCompleted", "RespondActivityTaskFailed",
   "RespondActivityTaskCanceled", "RecordActivityTaskHeartbeat"}

\* the action each handler passes to the driver
activityAction(handler, token, ms) ==
  CASE handler = "RecordActivityTaskStarted" -> recordActivityTaskStartedAction(token, ms)
    [] handler = "RespondActivityTaskCompleted" -> respondActivityTaskCompletedAction(token, ms)
    [] handler = "RespondActivityTaskFailed" -> respondActivityTaskFailedAction(token, ms)
    [] handler = "RespondActivityTaskCanceled" -> respondActivityTaskCanceledAction(token, ms)
    [] handler = "RecordActivityTaskHeartbeat" -> recordActivityTaskHeartbeatAction(token, ms)
activityEffect(handler, token, ms) ==
  CASE handler = "RecordActivityTaskStarted" -> recordActivityTaskStartedEffect(token, ms)
    [] handler = "RespondActivityTaskCompleted" -> respondActivityTaskCompletedEffect(token, ms)
    [] handler = "RespondActivityTaskFailed" -> respondActivityTaskFailedEffect(token, ms)
    [] handler = "RespondActivityTaskCanceled" -> respondActivityTaskCanceledEffect(token, ms)
    [] handler = "RecordActivityTaskHeartbeat" -> recordActivityTaskHeartbeatEffect(token, ms)
\* the createDecision each handler passes to the driver, or sets as post action
activityCreateDecision(handler, token, ms) ==
  CASE handler = "RecordActivityTaskStarted" -> FALSE
    [] handler = "RespondActivityTaskCompleted" -> TRUE
    [] handler = "RespondActivityTaskFailed" -> respondActivityTaskFailedCreateDecision(token, ms)
    [] handler = "RespondActivityTaskCanceled" -> TRUE
    [] handler = "RecordActivityTaskHeartbeat" -> FALSE
\* what the action captures for the response
activityCaptured(handler, token, ms) ==
  IF handler = "RecordActivityTaskHeartbeat"
    THEN recordActivityTaskHeartbeatCancelRequested(token, ms)
    ELSE FALSE

ActivityInit ==
  /\ \E running \in BOOLEAN, token \in TaskTokens,
        pending \in {{}} \cup {{ActivityInfo(st, at)} : st \in BOOLEAN, at \in ActivityAttempts} :
       \E cache \in {Nil, ActivityMutableState(running, pending), StaleMutableState(running)} :
         act = [pc |-> "ready", handler |-> "RespondActivityTaskCompleted",
                token |-> token, attempt |-> 0, err |-> "",
                store |-> ActivityMutableState(running, pending),
                cache |-> cache, ms |-> Nil, written |-> FALSE,
                cancelRequested |-> FALSE]
  /\ StartInit(FALSE)
  /\ domainVersion = 0
  /\ PolicyIdle
  /\ PollIdle /\ QueryIdle /\ FailoverIdle
  /\ ResetIdle /\ ReapplyIdle /\ ContextIdle /\ LaterIdle

\* the pending activities of the runs the handlers are called on
PendingActivityInfos ==
  {[ActivityInfo(st, at) EXCEPT !.CancelRequested = cr, !.HasRetryLeft = rl] :
     st \in BOOLEAN, at \in ActivityAttempts, cr \in BOOLEAN, rl \in BOOLEAN}
ActivityRequests ==
  [ScheduleID : {EmptyEventID, 5, 9}, ActivityID : ActivityIDs \cup {""},
   ScheduleAttempt : ActivityAttempts, RequestID : {"q1", "q2"}, Details : {"d1"}]

HandlersInit ==
  /\ \E handler \in ActivityHandlers, running \in BOOLEAN, token \in ActivityRequests,
        pending \in {{}} \cup {{ai} : ai \in PendingActivityInfos} :
       \E cache \in {Nil, ActivityMutableState(running, pending), StaleMutableState(running)} :
         act = [pc |-> "ready", handler |-> handler,
                token |-> token, attempt |-> 0, err |-> "",
                store |-> ActivityMutableState(running, pending),
                cache |-> cache, ms |-> Nil, written |-> FALSE,
                cancelRequested |-> FALSE]
  /\ StartInit(FALSE)
  /\ domainVersion = 0
  /\ PolicyIdle
  /\ PollIdle /\ QueryIdle /\ FailoverIdle
  /\ ResetIdle /\ ReapplyIdle /\ ContextIdle /\ LaterIdle

\* RespondActivityTaskCompleted up to the load of the mutable state: the context
\* is locked and the mutable state comes from the cache, or else from the store
RespondActivityTaskCompleted ==
  /\ act.pc = "ready"
  /\ act.handler = "RespondActivityTaskCompleted"
  /\ act' = [act EXCEPT !.pc = "action",
                        !.ms = IF act.cache # Nil THEN act.cache ELSE act.store,
                        !.cache = IF act.cache # Nil THEN act.cache ELSE act.store]
  /\ UNCHANGED nonActivityVars

\* UpdateWithAction: one run of the action on the loaded mutable state
UpdateWithActionApply ==
  /\ act.pc = "action"
  /\ LET err == activityAction(act.handler, act.token, act.ms)
         last == act.attempt = ConditionalRetryCount - 1
         after == activityEffect(act.handler, act.token, act.ms)
     IN  act' =
           IF err = "StaleState"
             THEN IF last
                    THEN [act EXCEPT !.pc = "done", !.err = "MaxAttemptsExceeded",
                                     !.cache = Nil, !.ms = Nil]
                    ELSE [act EXCEPT !.attempt = @ + 1, !.cache = act.store,
                                     !.ms = act.store]
           ELSE IF err # ""
             THEN [act EXCEPT !.pc = "done", !.err = err, !.ms = Nil]
           ELSE [act EXCEPT !.pc = "commit",
                            !.cancelRequested =
                               activityCaptured(act.handler, act.token, act.ms),
                            !.ms = IF activityCreateDecision(act.handler, act.token, act.ms)
                                     THEN ScheduleDecision(after) ELSE after]
  /\ UNCHANGED nonActivityVars

\* UpdateWithAction: the conditional update of the execution; a conflict clears the
\* context and the loop reloads and runs the action again
UpdateWithActionCommit ==
  /\ act.pc = "commit"
  /\ act' =
       IF act.ms.condition = act.store.condition
         THEN [act EXCEPT !.pc = "done", !.err = "",
                          !.store = [act.ms EXCEPT !.condition = act.ms.nextEventID],
                          !.cache = [act.ms EXCEPT !.condition = act.ms.nextEventID],
                          !.ms = Nil]
       ELSE IF act.attempt = ConditionalRetryCount - 1
         THEN [act EXCEPT !.pc = "done", !.err = "MaxAttemptsExceeded",
                          !.cache = Nil, !.ms = Nil]
       ELSE [act EXCEPT !.pc = "action", !.attempt = @ + 1, !.cache = act.store,
                        !.ms = act.store]
  /\ UNCHANGED nonActivityVars

\* another writer of the store moves the condition of the execution
ActivityExternalWrite ==
  /\ act.pc # "done"
  /\ ~act.written
  /\ act' = [act EXCEPT !.written = TRUE,
                        !.store = [@ EXCEPT !.nextEventID = @ + 1, !.condition = @ + 1]]
  /\ UNCHANGED nonActivityVars

ActivityNext ==
  \/ RespondActivityTaskCompleted
  \/ UpdateWithActionApply
  \/ UpdateWithActionCommit
  \/ ActivityExternalWrite

SpecActivity == ActivityInit /\ [][ActivityNext]_vars

\* any of the five handlers up to the load of the mutable state
ActivityHandlerCall ==
  /\ act.pc = "ready"
  /\ act' = [act EXCEPT !.pc = "action",
                        !.ms = IF act.cache # Nil THEN act.cache ELSE act.store,
                        !.cache = IF act.cache # Nil THEN act.cache ELSE act.store]
  /\ UNCHANGED nonActivityVars

HandlersNext ==
  \/ ActivityHandlerCall
  \/ UpdateWithActionApply
  \/ UpdateWithActionCommit
  \/ ActivityExternalWrite

SpecHandlers == HandlersInit /\ [][HandlersNext]_vars

(* ------------- SpecPoll: GetMutableState / PollMutableState -------------- *)

\* commits other requests make to the polled run
MaxPollCommits == 2
\* the largest expected next-event id of a request
MaxExpectedNextEventID == 4
\* common.FirstEventID
FirstEventID == 1
BranchTokens == {"b1", "b2"}

\* getMutableState: the response built from the mutable state of the run
getMutableState(store) ==
  [NextEventID |-> store.nextEventID, IsWorkflowRunning |-> store.running,
   CurrentBranchToken |-> store.branch]
\* events.Notification of a commit
Notification(store) ==
  [NextEventID |-> store.nextEventID, IsWorkflowRunning |-> store.running,
   CurrentBranchToken |-> store.branch]

\* expectedNextEventID is 0 when the caller wants the current next event id
\* without blocking
expectedNextEventID(request) ==
  IF request.ExpectedNextEventID # 0 THEN request.ExpectedNextEventID ELSE FirstEventID

\* mutant: the poll is entered only for an expectation above the next-event id
shouldPoll_StrictlyAbove(expected, response) ==
  expected > response.NextEventID /\ response.IsWorkflowRunning

\* the caller decides to long poll
shouldPoll(expected, response) ==
  expected >= response.NextEventID /\ response.IsWorkflowRunning

\* the condition the poll waits for
pollSatisfied(expected, response) ==
  expected < response.NextEventID \/ ~response.IsWorkflowRunning

\* mutant: the subscription is given up only by a poll that returns a response
pollDeferredUnwatch_OnSuccessOnly(p) ==
  IF p.err = "" THEN [p EXCEPT !.subscribed = FALSE, !.channel = <<>>] ELSE p

\* defer e.historyEventNotifier.UnwatchHistoryEvent(..., subscriberID)
pollDeferredUnwatch(p) ==
  [p EXCEPT !.subscribed = FALSE, !.channel = <<>>]

PollReturn(response, err, cause) ==
  pollDeferredUnwatch([poll EXCEPT !.pc = "done", !.response = response, !.err = err,
                                   !.cause = cause])

PollInit ==
  /\ \E next \in 2 .. 3, running \in BOOLEAN, expected \in 0 .. MaxExpectedNextEventID,
        branch \in BranchTokens \cup {""} :
       poll = [pc |-> "ready",
               store |-> [nextEventID |-> next, running |-> running, branch |-> "b1"],
               request |-> [ExpectedNextEventID |-> expected, CurrentBranchToken |-> branch],
               inflight |-> <<>>, subscribed |-> FALSE, channel |-> <<>>,
               response |-> Nil, stateBranch |-> "", err |-> "", cause |-> "",
               commits |-> 0]
  /\ StartInit(FALSE)
  /\ domainVersion = 0
  /\ PolicyIdle /\ ActivityIdle /\ QueryIdle /\ FailoverIdle
  /\ ResetIdle /\ ReapplyIdle /\ ContextIdle /\ LaterIdle

\* getMutableStateOrPolling up to the decision to long poll
getMutableStateOrPolling ==
  /\ poll.pc = "ready"
  /\ LET response == getMutableState(poll.store)
         token == IF poll.request.CurrentBranchToken = ""
                    THEN response.CurrentBranchToken
                    ELSE poll.request.CurrentBranchToken
         request == [poll.request EXCEPT !.CurrentBranchToken = token]
     IN  poll' =
           IF token # response.CurrentBranchToken
             THEN [PollReturn(Nil, "CurrentBranchChanged", "load") EXCEPT !.request = request]
           ELSE IF shouldPoll(expectedNextEventID(request), response)
             THEN [poll EXCEPT !.pc = "watch", !.request = request, !.response = response,
                               !.stateBranch = poll.store.branch]
           ELSE [PollReturn(response, "", "load") EXCEPT !.request = request,
                                                         !.stateBranch = poll.store.branch]
  /\ UNCHANGED nonPollVars

\* historyEventNotifier.WatchHistoryEvent
WatchHistoryEvent ==
  /\ poll.pc = "watch"
  /\ poll' = [poll EXCEPT !.pc = "recheck", !.subscribed = TRUE, !.channel = <<>>]
  /\ UNCHANGED nonPollVars

\* mutant: the wait begins without the second load of the mutable state
pollRecheck_Skipped ==
  /\ poll.pc = "recheck"
  /\ poll' = [poll EXCEPT !.pc = "wait"]
  /\ UNCHANGED nonPollVars

\* check again in case the next event id is updated
pollRecheck ==
  /\ poll.pc = "recheck"
  /\ LET response == getMutableState(poll.store)
     IN  poll' =
           IF poll.request.CurrentBranchToken # response.CurrentBranchToken
             THEN PollReturn(Nil, "CurrentBranchChanged", "recheck")
           ELSE IF pollSatisfied(expectedNextEventID(poll.request), response)
             THEN [PollReturn(response, "", "recheck") EXCEPT
                     !.stateBranch = poll.store.branch]
           ELSE [poll EXCEPT !.pc = "wait", !.response = response,
                             !.stateBranch = poll.store.branch]
  /\ UNCHANGED nonPollVars

\* the second load of the mutable state fails
pollReloadError ==
  /\ poll.pc = "recheck"
  /\ poll' = PollReturn(Nil, "LoadError", "reload")
  /\ UNCHANGED nonPollVars

\* the second load leaves the poll unsatisfied and GetDomainName fails
pollDomainNameError ==
  /\ poll.pc = "recheck"
  /\ LET response == getMutableState(poll.store)
     IN  /\ poll.request.CurrentBranchToken = response.CurrentBranchToken
         /\ ~pollSatisfied(expectedNextEventID(poll.request), response)
  /\ poll' = PollReturn(Nil, "DomainCacheError", "domain")
  /\ UNCHANGED nonPollVars

\* mutant: the branch token of a notification is not compared
pollNotified_NoBranchCheck ==
  /\ poll.pc = "wait"
  /\ poll.channel # <<>>
  /\ LET event == Head(poll.channel)
         response == [poll.response EXCEPT !.NextEventID = event.NextEventID,
                                           !.IsWorkflowRunning = event.IsWorkflowRunning]
     IN  poll' =
           IF pollSatisfied(expectedNextEventID(poll.request), response)
             THEN [PollReturn(response, "", "notification") EXCEPT
                     !.stateBranch = event.CurrentBranchToken]
           ELSE [poll EXCEPT !.response = response, !.channel = Tail(@),
                             !.stateBranch = event.CurrentBranchToken]
  /\ UNCHANGED nonPollVars

\* case event := <-channel
pollNotified ==
  /\ poll.pc = "wait"
  /\ poll.channel # <<>>
  /\ LET event == Head(poll.channel)
         response == [poll.response EXCEPT !.NextEventID = event.NextEventID,
                                           !.IsWorkflowRunning = event.IsWorkflowRunning]
     IN  poll' =
           IF poll.request.CurrentBranchToken # event.CurrentBranchToken
             THEN PollReturn(Nil, "CurrentBranchChanged", "notification")
           ELSE IF pollSatisfied(expectedNextEventID(poll.request), response)
             THEN [PollReturn(response, "", "notification") EXCEPT
                     !.stateBranch = event.CurrentBranchToken]
           ELSE [poll EXCEPT !.response = response, !.channel = Tail(@),
                             !.stateBranch = event.CurrentBranchToken]
  /\ UNCHANGED nonPollVars

\* case <-timer.C
pollTimer ==
  /\ poll.pc = "wait"
  /\ poll' = PollReturn(poll.response, "", "timer")
  /\ UNCHANGED nonPollVars

\* case <-ctx.Done()
pollContextDone ==
  /\ poll.pc = "wait"
  /\ poll' = PollReturn(Nil, "context", "context")
  /\ UNCHANGED nonPollVars

\* another request commits new events to the polled run, closes it or moves it
\* to another branch; the commit is followed by NotifyNewHistoryEvent
PollCommit(newEvents, closes, branch) ==
  /\ poll.pc # "done"
  /\ poll.store.running
  /\ poll.commits < MaxPollCommits
  /\ LET store == [nextEventID |-> poll.store.nextEventID + newEvents,
                   running |-> ~closes, branch |-> branch]
     IN  poll' = [poll EXCEPT !.store = store, !.commits = @ + 1,
                              !.inflight = Append(@, Notification(store))]
  /\ UNCHANGED nonPollVars

\* the notifier hands the oldest notification to the subscriber of the run
NotifyNewHistoryEvent ==
  /\ poll.inflight # <<>>
  /\ poll' = [poll EXCEPT !.inflight = Tail(@),
                          !.channel = IF poll.subscribed
                                        THEN Append(@, Head(poll.inflight)) ELSE @]
  /\ UNCHANGED nonPollVars

PollSteps ==
  \/ getMutableStateOrPolling
  \/ WatchHistoryEvent
  \/ pollRecheck
  \/ pollNotified

PollNext ==
  \/ PollSteps
  \/ pollTimer
  \/ pollContextDone
  \/ \E newEvents \in 1 .. 2, closes \in BOOLEAN, branch \in BranchTokens :
       PollCommit(newEvents, closes, branch)
  \/ NotifyNewHistoryEvent

SpecPoll == PollInit /\ [][PollNext]_vars

\* the long poll with the scheduling of the goroutines: the poll and the notifier
\* keep running; the timer and the end of the caller's context need not happen
SpecPollLive ==
  /\ PollInit /\ [][PollNext]_vars
  /\ WF_vars(PollSteps) /\ WF_vars(NotifyNewHistoryEvent)

\* the long poll with the failures of the second load and of the domain lookup
PollFailingNext ==
  \/ PollNext
  \/ pollReloadError
  \/ pollDomainNameError

SpecPollFailing == PollInit /\ [][PollFailingNext]_vars

(* ----------------------- SpecQuery: QueryWorkflow ------------------------- *)

\* concurrent QueryWorkflow calls on one run
NumQueries == 2
\* config.MaxBufferedQueryCount
MaxBufferedQueryCount == 1
Queries == 1 .. NumQueries
QueryConsistencyLevelEventual == "Eventual"
QueryConsistencyLevelStrong == "Strong"
QueryConsistencyLevels == {QueryConsistencyLevelEventual, QueryConsistencyLevelStrong}
\* query.TerminationType*, with the result type of a completed query
TerminationStates == {"CompletedAnswered", "CompletedFailed", "Unblocked", "Failed"}
\* what a direct dispatch meets: whether the run has a usable sticky task list,
\* the error of the sticky dispatch, of ResetStickyTaskList, of the caller's
\* context and of the non-sticky dispatch ("" is no error)
MatchingOutcomes ==
  [sticky : BOOLEAN, stickyErr : {"", "DeadlineExceeded", "MatchingError"},
   clearErr : {"", "ErrAlreadyCompleted", "ClearError"},
   ctxErr : {"", "context"}, err : {"", "MatchingError"}]
\* the steps a direct dispatch has made
NoDispatch ==
  [sticky |-> FALSE, stickyErr |-> "", running |-> FALSE, cleared |-> FALSE,
   clearErr |-> "", ctxErr |-> "", nonSticky |-> FALSE]

\* queryRegistry.GetBufferedIDs
GetBufferedIDs(registry) == {i \in Queries : registry[i] = "Buffered"}

\* mutant: eventual consistency is not a reason to dispatch directly
safeToDispatchDirectly_NoEventual(domainActive, ms, level) ==
  \/ ~domainActive
  \/ ~ms.running
  \/ (~ms.pendingDecision /\ ~ms.inFlightDecision)

\* the four cases in which a query can be dispatched directly through matching
safeToDispatchDirectly(domainActive, ms, level) ==
  \/ ~domainActive
  \/ ~ms.running
  \/ level = QueryConsistencyLevelEventual
  \/ (~ms.pendingDecision /\ ~ms.inFlightDecision)

\* mutant: the registry is full only above MaxBufferedQueryCount
queryBufferExceeded_Above(registry) ==
  Cardinality(GetBufferedIDs(registry)) > MaxBufferedQueryCount

\* len(queryReg.GetBufferedIDs()) >= e.config.MaxBufferedQueryCount()
queryBufferExceeded(registry) ==
  Cardinality(GetBufferedIDs(registry)) >= MaxBufferedQueryCount

\* mutant: the buffered query does not wait for its termination channel
termChFired_NoWait(registry, i) == TRUE

\* case <-termCh: the channel is closed when the query reaches a terminal state
termChFired(registry, i) == registry[i] \in TerminationStates

\* the release function of the execution cache called by query i: the first call
\* gives up the lock of the run
release(i) ==
  [qry EXCEPT !.lock = IF @ = i THEN 0 ELSE @, !.q[i].released = @ + 1]

QueryInit ==
  /\ \E domainActive \in BOOLEAN, running \in BOOLEAN, decision \in {"none", "pending", "inflight"},
        levels \in [Queries -> QueryConsistencyLevels] :
       qry = [domainActive |-> domainActive,
              ms |-> [running |-> running,
                      pendingDecision |-> running /\ decision = "pending",
                      inFlightDecision |-> running /\ decision = "inflight"],
              lock |-> 0,
              registry |-> [i \in Queries |-> "None"],
              q |-> [i \in Queries |->
                       [pc |-> "start", level |-> levels[i], released |-> 0, safe |-> FALSE,
                        buffered |-> FALSE, termination |-> "", dispatched |-> FALSE,
                        direct |-> NoDispatch, response |-> "", err |-> ""]]]
  /\ StartInit(FALSE)
  /\ domainVersion = 0
  /\ PolicyIdle /\ ActivityIdle /\ PollIdle /\ FailoverIdle
  /\ ResetIdle /\ ReapplyIdle /\ ContextIdle /\ LaterIdle

\* executionCache.GetOrCreateWorkflowExecution with the deferred release
queryLock(i) ==
  /\ qry.q[i].pc = "start"
  /\ qry.lock = 0
  /\ qry' = [qry EXCEPT !.lock = i, !.q[i].pc = "locked"]
  /\ UNCHANGED nonQueryVars

\* the routing of the query under the lock of the run
queryRoute(i) ==
  /\ qry.q[i].pc = "locked"
  /\ LET safe == safeToDispatchDirectly(qry.domainActive, qry.ms, qry.q[i].level)
         routed == [release(i) EXCEPT !.q[i].safe = safe]
     IN  qry' =
           IF safe
             THEN [routed EXCEPT !.q[i].pc = "direct"]
           ELSE IF queryBufferExceeded(qry.registry)
             THEN [routed EXCEPT !.q[i].pc = "done",
                                 !.q[i].err = "ErrConsistentQueryBufferExceeded"]
           ELSE [routed EXCEPT !.q[i].pc = "wait", !.q[i].buffered = TRUE,
                               !.registry[i] = "Buffered"]
  /\ UNCHANGED nonQueryVars

\* the return of QueryWorkflow after the lock was given up at the routing: the
\* deferred RemoveQuery and the deferred release run
queryReturn(i, dispatched, response, err) ==
  LET returned == [qry EXCEPT !.q[i].pc = "done", !.q[i].dispatched = dispatched,
                              !.q[i].response = response, !.q[i].err = err,
                              !.q[i].termination = qry.registry[i],
                              !.registry[i] = "None"]
  IN  [returned EXCEPT !.lock = IF @ = i THEN 0 ELSE @, !.q[i].released = @ + 1]

\* queryDirectlyThroughMatching: the sticky task list first, when the run has one
\* and the domain is active; on its deadline the stickiness of a running run is
\* cleared; then the non-sticky task list, when the context is still valid
queryDirectlyThroughMatching(i, outcome) ==
  LET sticky == outcome.sticky /\ qry.domainActive
      tried == [NoDispatch EXCEPT !.sticky = sticky,
                                  !.stickyErr = IF sticky THEN outcome.stickyErr ELSE ""]
      clears == sticky /\ outcome.stickyErr = "DeadlineExceeded" /\ qry.ms.running
      cleared == [tried EXCEPT !.running = sticky /\ qry.ms.running, !.cleared = clears,
                               !.clearErr = IF clears THEN outcome.clearErr ELSE ""]
      checked == [cleared EXCEPT !.ctxErr = outcome.ctxErr]
      dispatch(direct, response, err) ==
        [queryReturn(i, TRUE, response, err) EXCEPT !.q[i].direct = direct]
  IN  IF sticky /\ outcome.stickyErr = ""
        THEN dispatch(tried, "MatchingResponse", "")
      ELSE IF sticky /\ outcome.stickyErr # "DeadlineExceeded"
        THEN dispatch(tried, "", outcome.stickyErr)
      ELSE IF clears /\ outcome.clearErr \notin {"", "ErrAlreadyCompleted"}
        THEN dispatch(cleared, "", outcome.clearErr)
      ELSE IF outcome.ctxErr # ""
        THEN dispatch(checked, "", outcome.ctxErr)
      ELSE IF outcome.err # ""
        THEN dispatch([checked EXCEPT !.nonSticky = TRUE], "", outcome.err)
      ELSE dispatch([checked EXCEPT !.nonSticky = TRUE], "MatchingResponse", "")

\* the direct dispatch after release(nil)
queryDirect(i, outcome) ==
  /\ qry.q[i].pc = "direct"
  /\ qry' = queryDirectlyThroughMatching(i, outcome)
  /\ UNCHANGED nonQueryVars

\* case <-termCh
queryTerminated(i, outcome) ==
  /\ qry.q[i].pc = "wait"
  /\ termChFired(qry.registry, i)
  /\ LET state == qry.registry[i]
     IN  qry' =
           IF state = "CompletedAnswered"
             THEN queryReturn(i, FALSE, "QueryResult", "")
           ELSE IF state = "CompletedFailed"
             THEN queryReturn(i, FALSE, "", "QueryFailedError")
           ELSE IF state = "Unblocked"
             THEN queryDirectlyThroughMatching(i, outcome)
           ELSE IF state = "Failed"
             THEN queryReturn(i, FALSE, "", "Failure")
           ELSE queryReturn(i, FALSE, "", "ErrQueryEnteredInvalidState")
  /\ UNCHANGED nonQueryVars

\* case <-ctx.Done()
queryContextDone(i) ==
  /\ qry.q[i].pc = "wait"
  /\ qry' = queryReturn(i, FALSE, "", "context")
  /\ UNCHANGED nonQueryVars

\* the registry terminates a buffered query: completed by the response of a
\* decision task, unblocked, or failed
TerminateQuery(i, state) ==
  /\ qry.registry[i] = "Buffered"
  /\ qry' = [qry EXCEPT !.registry[i] = state]
  /\ UNCHANGED nonQueryVars

\* the decision of the run is scheduled, started or completed, or the run closes
QueryDecisionProgress(running, decision) ==
  /\ qry.ms.running
  /\ \E i \in Queries : qry.q[i].pc # "done"
  /\ qry' = [qry EXCEPT !.ms = [running |-> running,
                                pendingDecision |-> running /\ decision = "pending",
                                inFlightDecision |-> running /\ decision = "inflight"]]
  /\ qry'.ms # qry.ms
  /\ UNCHANGED nonQueryVars

\* the domain fails over
QueryDomainFailover ==
  /\ \E i \in Queries : qry.q[i].pc # "done"
  /\ qry' = [qry EXCEPT !.domainActive = ~@]
  /\ UNCHANGED nonQueryVars

QueryNext ==
  \/ \E i \in Queries : queryLock(i)
  \/ \E i \in Queries : queryRoute(i)
  \/ \E i \in Queries, outcome \in MatchingOutcomes : queryDirect(i, outcome)
  \/ \E i \in Queries, outcome \in MatchingOutcomes : queryTerminated(i, outcome)
  \/ \E i \in Queries : queryContextDone(i)
  \/ \E i \in Queries, state \in TerminationStates : TerminateQuery(i, state)
  \/ \E running \in BOOLEAN, decision \in {"none", "pending", "inflight"} :
       QueryDecisionProgress(running, decision)
  \/ QueryDomainFailover

SpecQuery == QueryInit /\ [][QueryNext]_vars

(* ------------------ SpecFailover: domain failover callback ---------------- *)

\* refreshes of the domain cache that call the callback
MaxFailoverRounds == 4
\* the largest notification version of a domain entry
MaxNotificationVersion == 1
DomainIDs == {"d1", "d2"}

\* cache.DomainCacheEntry: activeHere is ActiveClusterName == currentClusterName,
\* gracefulFromHere is a previous failover version that belongs to this cluster
DomainCacheEntries(id) ==
  [ID : {id}, IsGlobalDomain : BOOLEAN,
   FailoverNotificationVersion : 0 .. MaxNotificationVersion,
   NotificationVersion : 0 .. MaxNotificationVersion,
   activeHere : BOOLEAN, gracefulFromHere : BOOLEAN]
\* the entries a refresh of the domain cache hands to the callback
NextDomains ==
  {<<>>} \cup {<<d>> : d \in DomainCacheEntries("d1")}
         \cup {<<d, e>> : d \in DomainCacheEntries("d1"), e \in DomainCacheEntries("d2")}

\* mutant: the failover-notification version is not compared
failoverPredicate_AnyVersion(shardNotificationVersion, nextDomain) ==
  /\ nextDomain.IsGlobalDomain
  /\ nextDomain.activeHere

\* failoverPredicate
failoverPredicate(shardNotificationVersion, nextDomain) ==
  /\ nextDomain.IsGlobalDomain
  /\ nextDomain.FailoverNotificationVersion >= shardNotificationVersion
  /\ nextDomain.activeHere

\* the domains of a graceful failover from this cluster
needsFailoverMarker(shardNotificationVersion, nextDomain) ==
  /\ nextDomain.IsGlobalDomain
  /\ nextDomain.FailoverNotificationVersion >= shardNotificationVersion
  /\ ~nextDomain.activeHere
  /\ nextDomain.gracefulFromHere

\* LockTaskProcessing / UnlockTaskProcessing of a queue processor
LockTaskProcessing(processor) == [processor EXCEPT !.locked = @ + 1]
UnlockTaskProcessing(processor) == [processor EXCEPT !.locked = @ - 1]

\* mutant: the timer processor is not locked
failoverPrepareLocks_TransferOnly(f) ==
  [f EXCEPT !.txProcessor = LockTaskProcessing(@)]

\* the prepare callback
failoverPrepareLocks(f) ==
  [f EXCEPT !.txProcessor = LockTaskProcessing(@),
            !.timerProcessor = LockTaskProcessing(@)]

\* mutant: the unlock is not deferred and runs on the path to the end only
failoverDeferredUnlock_NotDeferred(f, path) ==
  IF path = "success"
    THEN [f EXCEPT !.txProcessor = UnlockTaskProcessing(@),
                   !.timerProcessor = UnlockTaskProcessing(@)]
    ELSE f

\* the deferred function of the commit callback
failoverDeferredUnlock(f, path) ==
  [f EXCEPT !.txProcessor = UnlockTaskProcessing(@),
            !.timerProcessor = UnlockTaskProcessing(@)]

\* a queue processor: its lock count, and the FailoverDomain and NotifyNewTask
\* calls made on it by the latest commit callback
QueueProcessor ==
  [locked |-> 0, failoverCalls |-> 0, failoverDomainIDs |-> {}, notified |-> 0]

\* the engine with its failover callback registered; `calls` keeps the arguments
\* of the commit callbacks when `traced`
FailoverState(traced, rounds) ==
  [phase |-> "idle", rounds |-> rounds, shardNotificationVersion |-> 0,
   txProcessor |-> QueueProcessor, timerProcessor |-> QueueProcessor,
   markers |-> {}, path |-> "", paths |-> {}, failoverDomainIDs |-> {},
   failoverMarkerTasks |-> {}, traced |-> traced, calls |-> <<>>]

FailoverInit ==
  /\ fo = FailoverState(FALSE, 0)
  /\ StartInit(FALSE)
  /\ domainVersion = 0
  /\ PolicyIdle /\ ActivityIdle /\ PollIdle /\ QueryIdle
  /\ ResetIdle /\ ReapplyIdle /\ ContextIdle /\ LaterIdle

\* two refreshes of the domain cache whose arguments are kept
FailoverTracedInit ==
  /\ fo = FailoverState(TRUE, MaxFailoverRounds - 2)
  /\ StartInit(FALSE)
  /\ domainVersion = 0
  /\ PolicyIdle /\ ActivityIdle /\ PollIdle /\ QueryIdle
  /\ ResetIdle /\ ReapplyIdle /\ ContextIdle /\ LaterIdle

\* the domain cache calls the prepare callback
failoverPrepare ==
  /\ fo.phase = "idle"
  /\ fo.rounds < MaxFailoverRounds
  /\ fo' = [failoverPrepareLocks(fo) EXCEPT
              !.phase = "prepared", !.rounds = @ + 1,
              !.txProcessor.failoverCalls = 0, !.txProcessor.notified = 0,
              !.txProcessor.failoverDomainIDs = {},
              !.timerProcessor.failoverCalls = 0, !.timerProcessor.notified = 0,
              !.timerProcessor.failoverDomainIDs = {}]
  /\ UNCHANGED nonFailoverVars

\* mutant: the version of the shard is advanced although the insertion failed
failoverMarkerFailure_Advances(f, nextDomains) ==
  [f EXCEPT !.path = "marker_failure",
            !.shardNotificationVersion =
               nextDomains[Len(nextDomains)].NotificationVersion + 1]

\* ReplicateFailoverMarkers failed: fail this failover callback and it retries on
\* next domain cache refresh
failoverMarkerFailure(f, nextDomains) ==
  [f EXCEPT !.path = "marker_failure"]

\* e.shard.UpdateDomainNotificationVersion with the notification version of the
\* last of the next domains plus one
UpdateDomainNotificationVersion(f, nextDomains) ==
  [f EXCEPT !.shardNotificationVersion =
               nextDomains[Len(nextDomains)].NotificationVersion + 1]

\* the commit callback up to its return
failoverCommitBody(f, nextDomains, markerError) ==
  LET ids == {nextDomains[k].ID : k \in {k \in 1 .. Len(nextDomains) :
                failoverPredicate(f.shardNotificationVersion, nextDomains[k])}}
      failoverMarkerTasks ==
        {nextDomains[k].ID : k \in {k \in 1 .. Len(nextDomains) :
                needsFailoverMarker(f.shardNotificationVersion, nextDomains[k])}}
      selected == [f EXCEPT !.failoverDomainIDs = ids,
                            !.failoverMarkerTasks = failoverMarkerTasks]
      failed == IF ids # {}
                  THEN [selected EXCEPT
                          !.txProcessor.failoverDomainIDs = ids,
                          !.txProcessor.failoverCalls = @ + 1,
                          !.txProcessor.notified = @ + 1,
                          !.timerProcessor.failoverDomainIDs = ids,
                          !.timerProcessor.failoverCalls = @ + 1,
                          !.timerProcessor.notified = @ + 1]
                  ELSE selected
  IN  IF Len(nextDomains) = 0
        THEN [f EXCEPT !.path = "no_next_domains", !.failoverDomainIDs = {},
                       !.failoverMarkerTasks = {}]
      ELSE IF failoverMarkerTasks # {} /\ markerError
        THEN failoverMarkerFailure(failed, nextDomains)
      ELSE [UpdateDomainNotificationVersion(failed, nextDomains) EXCEPT
              !.markers = @ \cup failoverMarkerTasks,
              !.path = IF ids = {} THEN "no_failover" ELSE "success"]

\* the call the next commit is a retry of: the latest one, when it failed on the
\* insertion of its markers
RetriedCall(calls) ==
  IF calls # <<>> /\ calls[Len(calls)].path = "marker_failure"
    THEN <<calls[Len(calls)]>>
    ELSE <<>>

\* the domain cache calls the commit callback
failoverCommit(nextDomains, markerError) ==
  /\ fo.phase = "prepared"
  /\ LET body == failoverCommitBody(fo, nextDomains, markerError)
     IN  fo' = [failoverDeferredUnlock(body, body.path) EXCEPT
                  !.phase = "idle", !.paths = @ \cup {body.path},
                  !.calls = IF fo.traced
                              THEN Append(RetriedCall(@), [nextDomains |-> nextDomains,
                                              shardNotificationVersion |->
                                                fo.shardNotificationVersion,
                                              markerError |-> markerError,
                                              failoverDomainIDs |-> body.failoverDomainIDs,
                                              failoverMarkerTasks |->
                                                body.failoverMarkerTasks,
                                              path |-> body.path])
                              ELSE @]
  /\ UNCHANGED nonFailoverVars

FailoverNext ==
  \/ failoverPrepare
  \/ /\ fo.phase = "prepared"
     /\ \E nextDomains \in NextDomains, markerError \in BOOLEAN :
          failoverCommit(nextDomains, markerError)

SpecFailover == FailoverInit /\ [][FailoverNext]_vars

SpecFailoverTraced == FailoverTracedInit /\ [][FailoverNext]_vars

(* --------------------- SpecReset: ResetWorkflowExecution ------------------ *)

\* ResetWorkflowExecution calls
MaxResetCalls == 3
\* the largest decision-finish event id of a reset request
MaxDecisionFinishEventID == 4
ResetRuns == 0 .. MaxResetCalls
ResetRequestIDs == {"R1", "R2"}
\* types.ResetWorkflowExecutionRequest
ResetRequests ==
  [baseRunID : ResetRuns, requestID : ResetRequestIDs,
   decisionFinishEventID : 1 .. MaxDecisionFinishEventID]

\* the mutable state of a run as far as the reset reads it
ResetMutableState(running, createRequestID, nextEventID, hasDecision) ==
  [running |-> running, createRequestID |-> createRequestID,
   nextEventID |-> nextEventID, HasProcessedOrPendingDecision |-> hasDecision]

ResetInit ==
  /\ \E running \in BOOLEAN, createRequestID \in {"R0", "R1"}, hasDecision \in BOOLEAN :
       rst = [runs |-> [u \in ResetRuns |->
                          IF u = 0
                            THEN ResetMutableState(running, createRequestID, 3, hasDecision)
                            ELSE Nil],
              current |-> 0, calls |-> <<>>]
  /\ StartInit(FALSE)
  /\ domainVersion = 0
  /\ PolicyIdle /\ ActivityIdle /\ PollIdle /\ QueryIdle /\ FailoverIdle
  /\ ReapplyIdle /\ ContextIdle /\ LaterIdle

\* the checks of the base run
resetBadRequest(baseMutableState, request) ==
  \/ ~baseMutableState.HasProcessedOrPendingDecision
  \/ request.decisionFinishEventID <= FirstEventID
  \/ request.decisionFinishEventID > baseMutableState.nextEventID

\* mutant: no request is taken for a duplicate
resetDuplicate_Never(currentMutableState, request) == FALSE

\* dedup by requestID
resetDuplicate(currentMutableState, request) ==
  currentMutableState.createRequestID = request.requestID

\* workflowResetter.ResetWorkflow: the new run is forked from the base run at the
\* cut, carries the request id as its create-request id and becomes the current
\* run; a running current run is closed
ResetWorkflow(r, request, resetRunID) ==
  [r EXCEPT
     !.runs = [u \in ResetRuns |->
                 IF u = resetRunID
                   THEN ResetMutableState(TRUE, request.requestID,
                                          request.decisionFinishEventID + 1, TRUE)
                 ELSE IF u = r.current /\ r.runs[u].running
                   THEN [r.runs[u] EXCEPT !.running = FALSE, !.nextEventID = @ + 1]
                 ELSE r.runs[u]],
     !.current = resetRunID]

\* the answer of a call, kept with its request
ResetCall(r, request, status, runID, resetter) ==
  [r EXCEPT !.calls = Append(@, [request |-> request, status |-> status,
                                 runID |-> runID, resetter |-> resetter])]

\* uuid.New()
resetRunID == CHOOSE u \in ResetRuns : rst.runs[u] = Nil /\ \A v \in ResetRuns : v < u => rst.runs[v] # Nil

ResetWorkflowExecution(request, resetterError) ==
  /\ Len(rst.calls) < MaxResetCalls
  /\ rst.runs[request.baseRunID] # Nil
  /\ LET baseMutableState == rst.runs[request.baseRunID]
         currentRunID == rst.current
         currentMutableState == rst.runs[currentRunID]
     IN  rst' =
           IF resetBadRequest(baseMutableState, request)
             THEN ResetCall(rst, request, "BadRequestError", NoRun, FALSE)
           ELSE IF resetDuplicate(currentMutableState, request)
             THEN ResetCall(rst, request, "ok", currentRunID, FALSE)
           ELSE IF resetterError
             THEN ResetCall(rst, request, "ResetWorkflowError", NoRun, TRUE)
           ELSE ResetCall(ResetWorkflow(rst, request, resetRunID), request, "ok",
                          resetRunID, TRUE)
  /\ UNCHANGED nonResetVars

\* the current run completes
ResetRunCloses ==
  /\ Len(rst.calls) < MaxResetCalls
  /\ rst.runs[rst.current].running
  /\ rst' = [rst EXCEPT !.runs[rst.current].running = FALSE,
                        !.runs[rst.current].nextEventID = @ + 1]
  /\ UNCHANGED nonResetVars

ResetNext ==
  \/ \E request \in ResetRequests, resetterError \in BOOLEAN :
       ResetWorkflowExecution(request, resetterError)
  \/ ResetRunCloses

SpecReset == ResetInit /\ [][ResetNext]_vars

(* ------------------------- SpecReapply: ReapplyEvents --------------------- *)

\* ReapplyEvents calls
MaxReapplyCalls == 2
\* events of one call
MaxReapplyEvents == 2
\* the largest event id of a foreign event
MaxReapplyEventID == 1
\* the runs the foreign events come from
ReapplyRunIDs == {"A", "B"}
\* types.HistoryEvent: only signals are reapplied
ReapplyHistoryEvents ==
  [eventID : 1 .. MaxReapplyEventID, version : 0 .. MaxVersion, signal : BOOLEAN]
ReapplyBatches ==
  UNION {[1 .. n -> ReapplyHistoryEvents] : n \in 0 .. MaxReapplyEvents}
DomainStatuses == {"active", "pendingActive", "notActive"}
\* what a call meets: the status of the domain and, for an active domain, whether
\* the resetter records the reapplied ids and whether the reset or the update fails
ReapplyConditions ==
  {c \in [domain : DomainStatuses, resetterRecords : BOOLEAN, updateErr : BOOLEAN] :
     /\ c.domain # "active" => ~c.resetterRecords /\ ~c.updateErr
     /\ ~(c.resetterRecords /\ c.updateErr)}

\* definition.NewEventReappliedID
NewEventReappliedID(runID, event) == <<runID, event.eventID, event.version>>
ReappliedIDs == {NewEventReappliedID(u, e) : u \in ReapplyRunIDs, e \in ReapplyHistoryEvents}

\* the mutable state of the current run as far as the reapplication reads it
ReapplyMutableState(runID, running, lastWriteVersion, previousStartedEventID, cron) ==
  [runID |-> runID, running |-> running, lastWriteVersion |-> lastWriteVersion,
   previousStartedEventID |-> previousStartedEventID, cron |-> cron,
   pendingDecision |-> FALSE, duplicated |-> {},
   signaled |-> [d \in ReappliedIDs |-> 0]]

ReapplyNoCall ==
  [runID |-> "", events |-> <<>>, domain |-> "",
   outcome |-> "", err |-> "", reappliedEvents |-> {}, committed |-> FALSE]

ReapplyInit ==
  /\ \E running \in BOOLEAN, lastWriteVersion \in 0 .. MaxVersion,
        previousStartedEventID \in {EmptyEventID, 2}, cron \in BOOLEAN :
       rap = [ms |-> ReapplyMutableState(0, running, lastWriteVersion,
                                         previousStartedEventID, cron),
              calls |-> 0, call |-> ReapplyNoCall]
  /\ StartInit(FALSE)
  /\ domainVersion = 0
  /\ PolicyIdle /\ ActivityIdle /\ PollIdle /\ QueryIdle /\ FailoverIdle
  /\ ResetIdle /\ ContextIdle /\ LaterIdle

\* mutableState.IsResourceDuplicated
IsResourceDuplicated(ms, dedupResource) == dedupResource \in ms.duplicated

\* mutant: events of the last-write version are kept
reapplyFiltered_NoVersionCheck(ms, runID, event) ==
  IsResourceDuplicated(ms, NewEventReappliedID(runID, event))

\* an event the filter drops
reapplyFiltered(ms, runID, event) ==
  \/ event.version = ms.lastWriteVersion
  \/ IsResourceDuplicated(ms, NewEventReappliedID(runID, event))

\* Filter out reapply event from the same cluster
toReapplyEvents(ms, runID, events) ==
  SelectSeq(events, LAMBDA event : ~reapplyFiltered(ms, runID, event))

RECURSIVE eventsReapplier(_, _, _, _)
\* eventsReapplier.ReapplyEvents: every signal not yet recorded is appended and
\* recorded; the result is the mutable state and the events reapplied
eventsReapplier(ms, events, runID, reapplied) ==
  IF events = <<>> THEN [ms |-> ms, reappliedEvents |-> reapplied]
  ELSE LET event == Head(events)
           dedupResource == NewEventReappliedID(runID, event)
       IN  IF ~event.signal \/ IsResourceDuplicated(ms, dedupResource)
             THEN eventsReapplier(ms, Tail(events), runID, reapplied)
             ELSE eventsReapplier(
                    [ms EXCEPT !.duplicated = @ \cup {dedupResource},
                               !.signaled[dedupResource] = @ + 1],
                    Tail(events), runID, reapplied \cup {dedupResource})

\* Do not create decision task when the workflow is cron and the cron has not
\* been started yet
reapplyCreateDecision(ms) ==
  ~(ms.cron /\ ~(ms.previousStartedEventID # EmptyEventID \/ ms.pendingDecision))

\* workflowResetter.ResetWorkflow with the events as the reapply batch: the new
\* run is rebuilt from the base run and is the current run; whether it records
\* the reapplied ids is the resetter's matter
reapplyResetWorkflow(ms, runID, events, records) ==
  LET signals == {NewEventReappliedID(runID, events[i]) :
                    i \in {j \in 1 .. Len(events) : events[j].signal}}
  IN  [ms EXCEPT !.runID = @ + 1, !.running = TRUE, !.pendingDecision = TRUE,
                 !.duplicated = IF records THEN signals ELSE {},
                 !.signaled = [d \in ReappliedIDs |-> IF d \in signals THEN 1 ELSE 0]]

ReapplyReturn(r, call, outcome, err, reappliedEvents, committed) ==
  [r EXCEPT !.calls = @ + 1,
            !.call = [call EXCEPT !.outcome = outcome, !.err = err,
                                  !.reappliedEvents = reappliedEvents,
                                  !.committed = committed]]

ReapplyEvents(domain, runID, events, resetterRecords, updateErr) ==
  /\ rap.calls < MaxReapplyCalls
  /\ LET ms == rap.ms
         toReapply == toReapplyEvents(ms, runID, events)
         call == [ReapplyNoCall EXCEPT !.runID = runID, !.events = events,
                                       !.domain = domain]
         reapplied == eventsReapplier(ms, toReapply, runID, {})
         scheduled == IF reapplyCreateDecision(reapplied.ms)
                        THEN [reapplied.ms EXCEPT !.pendingDecision = TRUE]
                        ELSE reapplied.ms
     IN  rap' =
           IF domain = "pendingActive"
             THEN ReapplyReturn(rap, call, "ignored", "", {}, FALSE)
           ELSE IF domain = "notActive"
             THEN ReapplyReturn(rap, call, "error", "DomainNotActiveError", {}, FALSE)
           ELSE IF Len(toReapply) = 0
             THEN ReapplyReturn(rap, call, "noop", "", {}, FALSE)
           ELSE IF ~ms.running
             THEN IF ms.previousStartedEventID = EmptyEventID
                    THEN ReapplyReturn(rap, call, "skipped", "", {}, FALSE)
                  ELSE IF updateErr
                    THEN ReapplyReturn(rap, call, "error", "ResetWorkflowError", {}, FALSE)
                  ELSE ReapplyReturn(
                         [rap EXCEPT !.ms = reapplyResetWorkflow(ms, runID, toReapply,
                                                                 resetterRecords)],
                         call, "reset", "", {}, FALSE)
           ELSE IF reapplied.reappliedEvents = {}
             THEN ReapplyReturn(rap, call, "noop", "", {}, FALSE)
           ELSE IF updateErr
             THEN ReapplyReturn(rap, call, "error", "UpdateWorkflowExecutionError", {}, FALSE)
           ELSE ReapplyReturn([rap EXCEPT !.ms = scheduled], call, "reapplied", "",
                              reapplied.reappliedEvents, TRUE)
  /\ UNCHANGED nonReapplyVars

\* the current run completes
ReapplyRunCloses ==
  /\ rap.calls < MaxReapplyCalls
  /\ rap.ms.running
  /\ rap' = [rap EXCEPT !.ms.running = FALSE, !.ms.pendingDecision = FALSE,
                        !.ms.previousStartedEventID =
                           IF rap.ms.pendingDecision THEN 2 ELSE @]
  /\ UNCHANGED nonReapplyVars

\* the run is written at another version
ReapplyVersionChanges ==
  /\ rap.calls < MaxReapplyCalls
  /\ rap.ms.running
  /\ \E v \in (0 .. MaxVersion) \ {rap.ms.lastWriteVersion} :
       rap' = [rap EXCEPT !.ms.lastWriteVersion = v]
  /\ UNCHANGED nonReapplyVars

ReapplyNext ==
  \/ /\ rap.calls < MaxReapplyCalls
     /\ \E c \in ReapplyConditions, runID \in ReapplyRunIDs, events \in ReapplyBatches :
          ReapplyEvents(c.domain, runID, events, c.resetterRecords, c.updateErr)
  \/ ReapplyRunCloses
  \/ ReapplyVersionChanges

SpecReapply == ReapplyInit /\ [][ReapplyNext]_vars

(* ------------------ SpecChildContext: newChildContext of Start ------------ *)

\* contextLockTimeout = 500 * time.Millisecond
contextLockTimeout == 500
\* how far, in milliseconds, the caller's deadline may lie in the past
MaxPastDeadline == 2
\* how far the caller's remaining time may exceed contextLockTimeout
MaxBeyondLockTimeout == 2
\* deadline.Sub(now) of the caller's context, in milliseconds
ParentTimeouts == (0 - MaxPastDeadline) .. (contextLockTimeout + MaxBeyondLockTimeout)

ChildContextInit ==
  /\ \E ok \in BOOLEAN, parentTimeout \in ParentTimeouts :
       /\ ~ok => parentTimeout = 0
       /\ ctxt = [pc |-> "start", hasDeadline |-> ok, parentTimeout |-> parentTimeout,
                  ctxTimeout |-> 0, parentDone |-> FALSE, err |-> "",
                  persisted |-> FALSE]
  /\ StartInit(FALSE)
  /\ domainVersion = 0
  /\ PolicyIdle /\ ActivityIdle /\ PollIdle /\ QueryIdle /\ FailoverIdle
  /\ ResetIdle /\ ReapplyIdle /\ LaterIdle

\* historyEngineImpl.newChildContext: the timeout of the child context
newChildContext(ok, parentTimeout) ==
  IF ok /\ parentTimeout > 0 /\ parentTimeout < contextLockTimeout
    THEN parentTimeout
    ELSE contextLockTimeout

\* startWorkflowHelper: use a smaller context timeout to get the lock
childContextNew ==
  /\ ctxt.pc = "start"
  /\ ctxt' = [ctxt EXCEPT !.pc = "lock",
                          !.ctxTimeout = newChildContext(ctxt.hasDeadline,
                                                         ctxt.parentTimeout)]
  /\ UNCHANGED nonContextVars

\* the current-run lock is acquired within the timeout: the start goes on and may
\* persist the run
childContextAcquired ==
  /\ ctxt.pc = "lock"
  /\ \E persisted \in BOOLEAN :
       ctxt' = [ctxt EXCEPT !.pc = "returned", !.persisted = persisted]
  /\ UNCHANGED nonContextVars

\* the acquisition exceeds the timeout: context.DeadlineExceeded
childContextDeadlineExceeded ==
  /\ ctxt.pc = "lock"
  /\ ctxt' = [ctxt EXCEPT !.pc = "exceeded", !.err = "ConcurrentStartRequest"]
  /\ UNCHANGED nonContextVars

\* the caller's context is cancelled while the start waits for the lock: the
\* child context is built on context.Background() and is not cancelled with it
childContextParentCanceled ==
  /\ ctxt.pc = "lock"
  /\ ~ctxt.parentDone
  /\ ctxt' = [ctxt EXCEPT !.parentDone = TRUE]
  /\ UNCHANGED nonContextVars

ChildContextNext ==
  \/ childContextNew
  \/ childContextParentCanceled
  \/ childContextAcquired
  \/ childContextDeadlineExceeded

SpecChildContext == ChildContextInit /\ [][ChildContextNext]_vars

(* ------------- SpecStartRequest: CreateHistoryStartWorkflowRequest -------- *)

\* the largest int32
MaxInt32 == 2147483647
\* time.Millisecond and time.Second in nanoseconds
Millisecond == 1000000
Second == 1000000000
\* the seconds of the clock readings examined
MaxNowSeconds == 1

\* int32 addition of two values that are not negative
AddInt32(a, b) ==
  IF a <= MaxInt32 - b THEN a + b ELSE (a - MaxInt32 - 1) + (b - MaxInt32 - 1)

\* a time.Time as seconds and nanoseconds within the second
Time(sec, nsec) == [sec |-> sec, nsec |-> nsec]
\* t.Round(time.Millisecond): halfway values round up
RoundMillisecond(t) ==
  LET down == (t.nsec \div Millisecond) * Millisecond
      up == IF t.nsec - down >= Millisecond \div 2 THEN down + Millisecond ELSE down
  IN  IF up = Second THEN Time(t.sec + 1, 0) ELSE Time(t.sec, up)

\* now.Add(time.Duration(seconds) * time.Second)
AddSeconds(t, seconds) == Time(t.sec + seconds, t.nsec)

\* an expiration interval that a backoff of minutes carries beyond the largest
\* int32, and that the clock readings alone do not
LargeExpirationInterval == MaxInt32 - MaxNowSeconds - 2

\* types.StartWorkflowExecutionRequest as far as the function reads it, with the
\* result of backoff.GetBackoffForNextScheduleInSeconds for its cron schedule
StartRequests ==
  [cronBackoffSeconds : {0, 1, 300},
   delayStartSeconds : {0, 1, 100},
   hasRetryPolicy : BOOLEAN,
   expirationIntervalInSeconds : {0, 60, LargeExpirationInterval}]
Nows == {Time(sec, nsec) : sec \in 0 .. MaxNowSeconds,
                          nsec \in {0, Millisecond \div 2 - 1, Millisecond \div 2,
                                    Second - Millisecond \div 2}}

\* expirationInSeconds := ExpirationIntervalInSeconds + firstDecisionTaskBackoffSeconds
expirationInSeconds(startRequest, firstDecisionTaskBackoffSeconds) ==
  AddInt32(startRequest.expirationIntervalInSeconds, firstDecisionTaskBackoffSeconds)

CreateHistoryStartWorkflowRequest(startRequest, now) ==
  LET delayStartSeconds == startRequest.delayStartSeconds
      firstDecisionTaskBackoffSeconds ==
        IF delayStartSeconds > 0 THEN delayStartSeconds
                                 ELSE startRequest.cronBackoffSeconds
  IN  IF delayStartSeconds > 0 /\ startRequest.cronBackoffSeconds > 0
        THEN [err |-> "ErrDelayStartSeconds", FirstDecisionTaskBackoffSeconds |-> 0,
              hasExpirationTimestamp |-> FALSE, ExpirationTimestamp |-> Time(0, 0)]
      ELSE IF startRequest.hasRetryPolicy /\ startRequest.expirationIntervalInSeconds > 0
        THEN [err |-> "",
              FirstDecisionTaskBackoffSeconds |-> firstDecisionTaskBackoffSeconds,
              hasExpirationTimestamp |-> TRUE,
              ExpirationTimestamp |->
                RoundMillisecond(AddSeconds(now,
                  expirationInSeconds(startRequest, firstDecisionTaskBackoffSeconds)))]
      ELSE [err |-> "",
            FirstDecisionTaskBackoffSeconds |-> firstDecisionTaskBackoffSeconds,
            hasExpirationTimestamp |-> FALSE, ExpirationTimestamp |-> Time(0, 0)]

StartRequestInit ==
  /\ \E startRequest \in StartRequests, now \in Nows :
       util = [pc |-> "call", startRequest |-> startRequest, now |-> now, out |-> Nil]
  /\ StartInit(FALSE)
  /\ domainVersion = 0
  /\ EarlierIdle /\ SignalIdle /\ LifecycleIdle /\ LockIdle

CreateHistoryStartWorkflowRequestCall ==
  /\ util.pc = "call"
  /\ util' = [util EXCEPT !.pc = "returned",
                          !.out = CreateHistoryStartWorkflowRequest(util.startRequest,
                                                                    util.now)]
  /\ UNCHANGED nonUtilVars

StartRequestNext == CreateHistoryStartWorkflowRequestCall

SpecStartRequest == StartRequestInit /\ [][StartRequestNext]_vars

(* --------------------- SpecBlobSize: CheckEventBlobSizeLimit -------------- *)

\* sizes and limits range over 0..MaxBlobSize
MaxBlobSize == 4
BlobSizes == 0 .. MaxBlobSize

\* the error of CheckEventBlobSizeLimit, "" for nil
CheckEventBlobSizeLimit(actualSize, warnLimit, errorLimit) ==
  IF actualSize > warnLimit
    THEN IF actualSize > errorLimit THEN "ErrBlobSizeExceedsLimit" ELSE ""
    ELSE ""

BlobSizeInit ==
  /\ \E actualSize \in BlobSizes, warnLimit \in BlobSizes, errorLimit \in BlobSizes :
       util = [pc |-> "call", actualSize |-> actualSize, warnLimit |-> warnLimit,
               errorLimit |-> errorLimit, err |-> ""]
  /\ StartInit(FALSE)
  /\ domainVersion = 0
  /\ EarlierIdle /\ SignalIdle /\ LifecycleIdle /\ LockIdle

CheckEventBlobSizeLimitCall ==
  /\ util.pc = "call"
  /\ util' = [util EXCEPT !.pc = "returned",
                          !.err = CheckEventBlobSizeLimit(util.actualSize, util.warnLimit,
                                                          util.errorLimit)]
  /\ UNCHANGED nonUtilVars

BlobSizeNext == CheckEventBlobSizeLimitCall

SpecBlobSize == BlobSizeInit /\ [][BlobSizeNext]_vars

(* ------------------- SpecSignal: SignalWorkflowExecution ------------------ *)

\* SignalWorkflowExecution and RemoveSignalMutableState calls
MaxSignalCalls == 4
\* the MaximumSignalsPerExecution of a domain that limits the signals
MaxAllowedSignals == 3
\* the request ids of signals; "" is a signal without request id
SignalRequestIDs == {"", "s1", "s2"}

SignalNoCall ==
  [kind |-> "", requestID |-> "", err |-> "", duplicate |-> FALSE, committed |-> FALSE]

SignalInit ==
  /\ \E maxAllowedSignals \in {0, MaxAllowedSignals}, cron \in BOOLEAN :
       sig = [ms |-> [running |-> TRUE, signalCount |-> 0, signalRequested |-> {},
                      signaled |-> [id \in SignalRequestIDs |-> 0],
                      cron |-> cron, hasDecision |-> FALSE, pendingDecision |-> FALSE,
                      decisions |-> 0],
              maxAllowedSignals |-> maxAllowedSignals,
              removed |-> {}, calls |-> 0, call |-> SignalNoCall]
  /\ StartInit(FALSE)
  /\ domainVersion = 0
  /\ EarlierIdle /\ UtilIdle /\ LifecycleIdle /\ LockIdle

\* maxAllowedSignals > 0 && int(executionInfo.SignalCount) >= maxAllowedSignals
signalsLimitExceeded(ms, maxAllowedSignals) ==
  maxAllowedSignals > 0 /\ ms.signalCount >= maxAllowedSignals

\* mutableState.IsSignalRequested
IsSignalRequested(ms, requestID) == requestID \in ms.signalRequested

\* mutant: the request id is not looked up
signalDuplicate_Never(ms, requestID) == FALSE

\* if requestID := request.GetRequestID(); requestID != "" {
\*   if mutableState.IsSignalRequested(requestID) { return postActions, nil }
signalDuplicate(ms, requestID) == requestID # "" /\ IsSignalRequested(ms, requestID)

\* SignalWorkflowExecution, the action: its error ("" for none), whether the
\* signal was a duplicate, and the mutable state it leaves
signalWorkflowExecutionAction(ms, maxAllowedSignals, requestID, parentMismatch) ==
  IF ~ms.running
    THEN [err |-> "ErrAlreadyCompleted", duplicate |-> FALSE, ms |-> ms]
  ELSE IF signalsLimitExceeded(ms, maxAllowedSignals)
    THEN [err |-> "ErrSignalsLimitExceeded", duplicate |-> FALSE, ms |-> ms]
  ELSE IF parentMismatch
    THEN [err |-> "ErrParentMismatch", duplicate |-> FALSE, ms |-> ms]
  ELSE IF signalDuplicate(ms, requestID)
    THEN [err |-> "", duplicate |-> TRUE, ms |-> ms]
  ELSE [err |-> "", duplicate |-> FALSE,
        ms |-> [ms EXCEPT !.signalRequested =
                             IF requestID # "" THEN @ \cup {requestID} ELSE @,
                          !.signaled[requestID] = @ + 1,
                          !.signalCount = @ + 1]]

\* Do not create decision task when the workflow is cron and the cron has not
\* been started yet
signalCreateDecisionTask(ms) == ~(ms.cron /\ ~ms.hasDecision)

\* the decision task the driver schedules for CreateDecision
signalScheduleDecision(ms) ==
  IF ms.pendingDecision THEN ms
  ELSE [ms EXCEPT !.pendingDecision = TRUE, !.hasDecision = TRUE, !.decisions = @ + 1]

SignalReturn(r, kind, requestID, err, duplicate, committed) ==
  [r EXCEPT !.calls = @ + 1,
            !.call = [kind |-> kind, requestID |-> requestID, err |-> err,
                      duplicate |-> duplicate, committed |-> committed]]

SignalWorkflowExecution(requestID, parentMismatch, updateErr) ==
  /\ sig.calls < MaxSignalCalls
  /\ LET action == signalWorkflowExecutionAction(sig.ms, sig.maxAllowedSignals,
                                                 requestID, parentMismatch)
         after == IF signalCreateDecisionTask(sig.ms)
                    THEN signalScheduleDecision(action.ms) ELSE action.ms
     IN  sig' =
           IF action.err # ""
             THEN SignalReturn(sig, "signal", requestID, action.err, FALSE, FALSE)
           ELSE IF updateErr
             THEN SignalReturn(sig, "signal", requestID, "UpdateWorkflowExecutionError",
                               action.duplicate, FALSE)
           ELSE SignalReturn([sig EXCEPT !.ms = after], "signal", requestID, "",
                             action.duplicate, TRUE)
  /\ UNCHANGED nonSignalVars

RemoveSignalMutableState(requestID) ==
  /\ sig.calls < MaxSignalCalls
  /\ sig' =
       IF ~sig.ms.running
         THEN SignalReturn(sig, "remove", requestID, "ErrAlreadyCompleted", FALSE, FALSE)
         ELSE SignalReturn([sig EXCEPT !.ms.signalRequested = @ \ {requestID},
                                       !.removed = @ \cup {requestID}],
                           "remove", requestID, "", FALSE, TRUE)
  /\ UNCHANGED nonSignalVars

\* the pending decision task completes
SignalDecisionCompletes ==
  /\ sig.calls < MaxSignalCalls
  /\ sig.ms.running /\ sig.ms.pendingDecision
  /\ sig' = [sig EXCEPT !.ms.pendingDecision = FALSE]
  /\ UNCHANGED nonSignalVars

\* the run completes
SignalRunCloses ==
  /\ sig.calls < MaxSignalCalls
  /\ sig.ms.running
  /\ sig' = [sig EXCEPT !.ms.running = FALSE, !.ms.pendingDecision = FALSE]
  /\ UNCHANGED nonSignalVars

SignalNext ==
  \/ \E requestID \in SignalRequestIDs, parentMismatch \in BOOLEAN, updateErr \in BOOLEAN :
       SignalWorkflowExecution(requestID, parentMismatch, updateErr)
  \/ \E requestID \in SignalRequestIDs \ {""} : RemoveSignalMutableState(requestID)
  \/ SignalDecisionCompletes
  \/ SignalRunCloses

SpecSignal == SignalInit /\ [][SignalNext]_vars

(* --------------- SpecLifecycle: engine Start and Stop --------------------- *)

\* domain change notifications the domain cache delivers
MaxDomainChanges == 2

QueueProcessors == {"txProcessor", "timerProcessor"}

\* the calls of one domain change notification, in the order of the two
\* registered functions: the prepare callback, then the callback with its
\* deferred unlock; FailoverDomain and NotifyNewTask only when a domain fails over
failoverCallbackCalls(failover) ==
  <<[op |-> "LockTaskProcessing", on |-> "txProcessor"],
    [op |-> "LockTaskProcessing", on |-> "timerProcessor"]>>
  \o (IF failover
        THEN <<[op |-> "FailoverDomain", on |-> "txProcessor"],
               [op |-> "FailoverDomain", on |-> "timerProcessor"],
               [op |-> "NotifyNewTask", on |-> "txProcessor"],
               [op |-> "NotifyNewTask", on |-> "timerProcessor"]>>
        ELSE <<>>)
  \o <<[op |-> "UnlockTaskProcessing", on |-> "txProcessor"],
       [op |-> "UnlockTaskProcessing", on |-> "timerProcessor"]>>

LifecycleInit ==
  /\ lif = [processor |-> [q \in QueueProcessors |-> "created"],
            registered |-> FALSE,
            pc |-> "created",
            pending |-> <<>>,
            changes |-> 0,
            calls |-> {}]
  /\ StartInit(FALSE)
  /\ domainVersion = 0
  /\ EarlierIdle /\ UtilIdle /\ SignalIdle /\ LockIdle

\* Start: e.txProcessor.Start()
engineStartTxProcessor ==
  /\ lif.pc = "created"
  /\ lif' = [lif EXCEPT !.processor["txProcessor"] = "started", !.pc = "txStarted"]
  /\ UNCHANGED nonLifecycleVars

\* Start: e.timerProcessor.Start()
engineStartTimerProcessor ==
  /\ lif.pc = "txStarted"
  /\ lif' = [lif EXCEPT !.processor["timerProcessor"] = "started", !.pc = "timerStarted"]
  /\ UNCHANGED nonLifecycleVars

\* Start: e.registerDomainFailoverCallback()
engineRegisterDomainFailoverCallback ==
  /\ lif.pc = "timerStarted"
  /\ lif' = [lif EXCEPT !.registered = TRUE, !.pc = "started"]
  /\ UNCHANGED nonLifecycleVars

\* Stop: e.txProcessor.Stop()
engineStopTxProcessor ==
  /\ lif.pc = "started"
  /\ lif' = [lif EXCEPT !.processor["txProcessor"] = "stopped", !.pc = "txStopped"]
  /\ UNCHANGED nonLifecycleVars

\* Stop: e.timerProcessor.Stop()
engineStopTimerProcessor ==
  /\ lif.pc = "txStopped"
  /\ lif' = [lif EXCEPT !.processor["timerProcessor"] = "stopped", !.pc = "timerStopped"]
  /\ UNCHANGED nonLifecycleVars

\* Stop: UnregisterDomainChangeCallback, after the processors and notifiers
engineUnregisterDomainChangeCallback ==
  /\ lif.pc = "timerStopped"
  /\ lif' = [lif EXCEPT !.registered = FALSE, !.pc = "stopped"]
  /\ UNCHANGED nonLifecycleVars

\* the domain cache delivers a domain change to the registered callback
domainChangeNotification(failover) ==
  /\ lif.registered
  /\ lif.pending = <<>>
  /\ lif.changes < MaxDomainChanges
  /\ lif' = [lif EXCEPT !.pending = failoverCallbackCalls(failover), !.changes = @ + 1]
  /\ UNCHANGED nonLifecycleVars

\* the callback makes its next call on a queue processor
failoverCallbackCall ==
  /\ lif.pending # <<>>
  /\ LET call == Head(lif.pending)
     IN  lif' = [lif EXCEPT !.pending = Tail(@),
                            !.calls = @ \cup {[op |-> call.op, on |-> call.on,
                                               state |-> lif.processor[call.on]]}]
  /\ UNCHANGED nonLifecycleVars

LifecycleNext ==
  \/ engineStartTxProcessor
  \/ engineStartTimerProcessor
  \/ engineRegisterDomainFailoverCallback
  \/ engineStopTxProcessor
  \/ engineStopTimerProcessor
  \/ engineUnregisterDomainChangeCallback
  \/ \E failover \in BOOLEAN : domainChangeNotification(failover)
  \/ failoverCallbackCall

SpecLifecycle == LifecycleInit /\ [][LifecycleNext]_vars

(* ------------- SpecLocks: the locks of the execution cache --------------- *)

\* concurrent requests on one workflow id
NumLockRequests == 3
\* runs of the workflow id; run n + 1 is created after run n, 0 is no run
MaxLockRuns == 3

LockRequests == 1 .. NumLockRequests
LockRuns == 1 .. MaxLockRuns

LockIdleRequest ==
  [kind |-> "", pc |-> "idle", terminate |-> FALSE, target |-> 0, base |-> 0]

LocksInit ==
  /\ \E created \in 0 .. 1 :
       lck = [slot |-> 0,
              run |-> [n \in LockRuns |-> 0],
              created |-> created,
              running |-> [n \in LockRuns |-> n <= created],
              rq |-> [r \in LockRequests |-> LockIdleRequest]]
  /\ StartInit(FALSE)
  /\ domainVersion = 0
  /\ EarlierIdle /\ UtilIdle /\ SignalIdle /\ LifecycleIdle

\* the release functions a request has deferred are called when it returns
lockReturn(l, r) ==
  [l EXCEPT !.slot = IF @ = r THEN 0 ELSE @,
            !.run = [n \in LockRuns |-> IF @[n] = r THEN 0 ELSE @[n]],
            !.rq[r].pc = "done"]

\* a new run is created as the current run; the store has room for MaxLockRuns
lockCanCreate(l) == l.created < MaxLockRuns

lockCreate(l) ==
  [l EXCEPT !.created = @ + 1, !.running[l.created + 1] = TRUE]

\* mutant: the lock of the current-run slot is awaited under the caller's context
lockSlotWaitBounded_CallerContext == FALSE

\* startWorkflowHelper awaits the current-run slot under the child context of
\* newChildContext, whose deadline is contextLockTimeout or earlier
lockSlotWaitBounded == TRUE

\* StartWorkflowExecution enters startWorkflowHelper
lockStart(r, terminate) ==
  /\ lck.rq[r].pc = "idle"
  /\ lck' = [lck EXCEPT !.rq[r] = [@ EXCEPT !.kind = "start", !.pc = "lockSlot",
                                             !.terminate = terminate]]
  /\ UNCHANGED nonLockVars

\* SignalWithStartWorkflowExecution: GetOrCreateWorkflowExecution without a run
\* id names the current run; with no current run it reports EntityNotExists
lockSignalWithStart(r, terminate) ==
  /\ lck.rq[r].pc = "idle"
  /\ lck' = [lck EXCEPT !.rq[r] =
               [@ EXCEPT !.kind = "signalWithStart", !.terminate = terminate,
                         !.target = lck.created,
                         !.pc = IF lck.created = 0 THEN "lockSlot" ELSE "lockRun"]]
  /\ UNCHANGED nonLockVars

\* ResetWorkflowExecution of a base run
lockReset(r, baseRunID) ==
  /\ lck.rq[r].pc = "idle"
  /\ lck' = [lck EXCEPT !.rq[r] = [@ EXCEPT !.kind = "reset", !.pc = "lockRun",
                                             !.base = baseRunID, !.target = baseRunID]]
  /\ UNCHANGED nonLockVars

\* QueryWorkflow of a run
lockQuery(r, runID) ==
  /\ lck.rq[r].pc = "idle"
  /\ lck' = [lck EXCEPT !.rq[r] = [@ EXCEPT !.kind = "query", !.pc = "lockRun",
                                             !.target = runID]]
  /\ UNCHANGED nonLockVars

\* GetOrCreateWorkflowExecution, LoadOnce: the lock of the run is free and taken
lockGetOrCreateWorkflowExecution(r) ==
  /\ lck.rq[r].pc = "lockRun"
  /\ lck.run[lck.rq[r].target] = 0
  /\ lck' = [lck EXCEPT !.run[lck.rq[r].target] = r, !.rq[r].pc = "locked"]
  /\ UNCHANGED nonLockVars

\* GetOrCreateCurrentWorkflowExecution: the lock of the slot is free and taken
lockGetOrCreateCurrentWorkflowExecution(r) ==
  /\ lck.rq[r].pc = "lockSlot"
  /\ lck.slot = 0
  /\ lck' = [lck EXCEPT !.slot = r, !.rq[r].pc = "create"]
  /\ UNCHANGED nonLockVars

\* the child context reaches its deadline: ErrConcurrentStartRequest
lockConcurrentStartRequest(r) ==
  /\ lck.rq[r].pc = "lockSlot"
  /\ lockSlotWaitBounded
  /\ lck.slot \notin {0, r}
  /\ lck' = lockReturn(lck, r)
  /\ UNCHANGED nonLockVars

\* startWorkflowHelper under the lock of the slot: CreateWorkflowExecution and
\* what follows WorkflowExecutionAlreadyStarted
lockStartWorkflowHelperCreate(r) ==
  LET q == lck.rq[r]
      currentRun == lck.created
      currentRunning == currentRun # 0 /\ lck.running[currentRun]
  IN
  /\ q.pc = "create"
  /\ lck' =
       IF q.kind = "signalWithStart"
         THEN IF q.target = currentRun /\ ~currentRunning /\ lockCanCreate(lck)
                THEN lockReturn(lockCreate(lck), r)
                ELSE lockReturn(lck, r)
       ELSE IF currentRunning /\ q.terminate
         THEN [lck EXCEPT !.rq[r] = [@ EXCEPT !.pc = "lockRun", !.target = currentRun]]
       ELSE IF ~currentRunning /\ lockCanCreate(lck)
         THEN lockReturn(lockCreate(lck), r)
       ELSE lockReturn(lck, r)
  /\ UNCHANGED nonLockVars

\* terminateAndStartWorkflow: the running run is closed and the new run created
lockTerminateAndStart(l, target) ==
  IF l.running[target] /\ l.created = target /\ lockCanCreate(l)
    THEN lockCreate([l EXCEPT !.running[target] = FALSE])
    ELSE l

\* the request acts under the lock of the run it awaited
lockUnderRunLock(r) ==
  LET q == lck.rq[r]
      currentRun == lck.created
  IN
  /\ q.pc = "locked"
  /\ lck' =
       CASE q.kind = "query" -> lockReturn(lck, r)
         [] q.kind = "start" -> lockReturn(lockTerminateAndStart(lck, q.target), r)
         [] q.kind = "signalWithStart" ->
              IF ~lck.running[q.target]
                THEN [lck EXCEPT !.rq[r].pc = "lockSlot"]
              ELSE IF q.terminate
                THEN lockReturn(lockTerminateAndStart(lck, q.target), r)
              ELSE lockReturn(lck, r)
         [] q.kind = "reset" ->
              IF q.target = q.base
                THEN \* the base run is loaded
                     IF q.base > lck.created
                       THEN lockReturn(lck, r)
                       ELSE [lck EXCEPT !.rq[r].pc = "getCurrent"]
                ELSE \* the current run is loaded and the workflow reset
                     IF q.target = currentRun /\ lockCanCreate(lck)
                       THEN lockReturn(lockCreate([lck EXCEPT !.running[currentRun] = FALSE]), r)
                       ELSE lockReturn(lck, r)
  /\ UNCHANGED nonLockVars

\* if currentRunID == baseRunID { currentContext = baseContext
lockResetCurrentIsBase(currentRunID, baseRunID) == currentRunID = baseRunID

\* ResetWorkflowExecution: GetCurrentExecution under the lock of the base run
lockResetGetCurrentExecution(r) ==
  LET q == lck.rq[r]
      currentRunID == lck.created
  IN
  /\ q.pc = "getCurrent"
  /\ lck' =
       IF lockResetCurrentIsBase(currentRunID, q.base)
         THEN IF lockCanCreate(lck)
                THEN lockReturn(lockCreate([lck EXCEPT !.running[currentRunID] = FALSE]), r)
                ELSE lockReturn(lck, r)
         ELSE [lck EXCEPT !.rq[r] = [@ EXCEPT !.pc = "lockRun", !.target = currentRunID]]
  /\ UNCHANGED nonLockVars

\* the current run completes, under its lock
lockRunCloses ==
  /\ lck.created # 0
  /\ lck.running[lck.created]
  /\ lck.run[lck.created] = 0
  /\ lck' = [lck EXCEPT !.running[lck.created] = FALSE]
  /\ UNCHANGED nonLockVars

LocksNext ==
  \/ \E r \in LockRequests, terminate \in BOOLEAN : lockStart(r, terminate)
  \/ \E r \in LockRequests, terminate \in BOOLEAN : lockSignalWithStart(r, terminate)
  \/ \E r \in LockRequests, baseRunID \in LockRuns : lockReset(r, baseRunID)
  \/ \E r \in LockRequests, runID \in LockRuns : lockQuery(r, runID)
  \/ \E r \in LockRequests : lockGetOrCreateWorkflowExecution(r)
  \/ \E r \in LockRequests : lockGetOrCreateCurrentWorkflowExecution(r)
  \/ \E r \in LockRequests : lockConcurrentStartRequest(r)
  \/ \E r \in LockRequests : lockStartWorkflowHelperCreate(r)
  \/ \E r \in LockRequests : lockUnderRunLock(r)
  \/ \E r \in LockRequests : lockResetGetCurrentExecution(r)
  \/ lockRunCloses

SpecLocks == LocksInit /\ [][LocksNext]_vars

(* ------------------------------- claims --------------------------------- *)

IsStart(q) == q.kind = "Start"
StepOf(r) == rq'[r] # rq[r]
Returns(r) == rq[r].pc # "done" /\ rq'[r].pc = "done"
DifferentRequest(r) ==
  /\ current # NoRun
  /\ execs[current].createRequestID # rq[r].requestID
SameRequest(r) ==
  /\ current # NoRun
  /\ execs[current].createRequestID = rq[r].requestID

\* between the load of a run's mutable state and the commit of the mutation
InLoadMutateCommit(r) ==
  rq[r].pc \in {"sws_update", "tas_attempt", "tas_update", "refresh_update"}

\* C1: a request that has loaded a run's mutable state and not yet committed holds
\* that run's execution-cache lock, so at most one request is in that section per
\* run; and a request's step changes a persisted run only while the request holds
\* the run's lock.
C1_CommitUnderRunLock ==
  /\ [](\A r \in Requests : InLoadMutateCommit(r) => runLock[rq[r].target] = r)
  /\ [](\A r1, r2 \in Requests :
          (r1 # r2 /\ InLoadMutateCommit(r1) /\ InLoadMutateCommit(r2))
            => rq[r1].target # rq[r2].target)
  /\ [][\A u \in Runs :
          (execs[u] # Nil /\ execs'[u] # execs[u] /\ rq' # rq)
            => \E r \in Requests : runLock[u] = r /\ StepOf(r)]_vars

\* one request is about to commit to a run while another waits for that run's lock
C1_Witness ==
  \E r1, r2 \in Requests :
    /\ rq[r1].pc \in {"sws_update", "tas_update", "refresh_update"}
    /\ rq[r2].pc \in {"sws_lock", "refresh_lock", "start_loadonce"}
    /\ rq[r1].target = rq[r2].target

\* C2: every run that is running (or created) is the current run of the workflow
\* id, so no two runs of it run at the same time.
C2_RunningRunIsCurrent ==
  \A u \in Runs : (execs[u] # Nil /\ IsWorkflowExecutionRunning(execs[u])) => current = u

\* terminate-and-start has replaced a running run by a new running run
C2_Witness ==
  \E u, v \in Runs :
    /\ u # v /\ execs[u] # Nil /\ execs[v] # Nil
    /\ execs[u].closeStatus = WorkflowCloseStatusTerminated
    /\ IsWorkflowExecutionRunning(execs[v])
    /\ current = v

\* C3: when a Start attempts its creation while the current run was created with
\* the Start's request id, it returns success with the current run's id, whatever
\* its reuse policy and the state of that run, and the store is left as it was.
C3_StartIdempotent ==
  [][\A r \in Requests :
       (StepOf(r) /\ IsStart(rq[r]) /\ rq[r].pc = "start_create" /\ SameRequest(r))
         => /\ rq'[r].pc = "done"
            /\ rq'[r].resp = Success(current)
            /\ rq'[r].resp.runID # rq[r].runID
            /\ current' = current
            /\ execs' = execs]_vars

\* a Start under TerminateIfRunning returned the id of the run its request id created
C3_Witness ==
  \E r \in Requests :
    /\ rq[r].pc = "done" /\ IsStart(rq[r])
    /\ rq[r].policy = WorkflowIDReusePolicyTerminateIfRunning
    /\ rq[r].resp.status = "ok"
    /\ rq[r].resp.runID \notin {NoRun, rq[r].runID}
    /\ rq[r].t # Nil /\ rq[r].t.startRequestID = rq[r].requestID

\* two Starts, and nothing else, have acted on a workflow id that had no run
TwoStartsAlone(r1, r2) ==
  /\ r1 # r2
  /\ rq[r1].pc = "done" /\ rq[r2].pc = "done"
  /\ IsStart(rq[r1]) /\ IsStart(rq[r2])
  /\ rq[r1].requestID # rq[r2].requestID
  /\ rq[r1].policy # WorkflowIDReusePolicyTerminateIfRunning
  /\ rq[r2].policy # WorkflowIDReusePolicyTerminateIfRunning
  /\ execs[0] = Nil
  /\ extWrites = 0
  /\ \A r \in Requests \ {r1, r2} : rq[r].pc = "idle"
  /\ \A u \in Runs : execs[u] # Nil => IsWorkflowExecutionRunning(execs[u])

\* C4: of two Starts with different request ids on a workflow id without a run,
\* neither under TerminateIfRunning, while the run started stays open: exactly one
\* returns its own run, which is current; the other fails with
\* WorkflowExecutionAlreadyStarted naming that run or with ConcurrentStartRequest.
C4_ConcurrentStart ==
  \A r1, r2 \in Requests :
    TwoStartsAlone(r1, r2) =>
      \E w \in {r1, r2} :
        LET l == IF w = r1 THEN r2 ELSE r1
        IN  /\ rq[w].resp = Success(rq[w].runID)
            /\ current = rq[w].runID
            /\ \/ rq[l].resp = Failure(ErrAlreadyStarted(rq[w].requestID, rq[w].runID))
               \/ rq[l].resp = Failure(Err("ConcurrentStartRequest"))

C4_Witness ==
  \E r1, r2 \in Requests :
    /\ TwoStartsAlone(r1, r2)
    /\ rq[r1].resp = Success(rq[r1].runID)
    /\ rq[r2].resp = Failure(ErrAlreadyStarted(rq[r1].requestID, rq[r1].runID))

LastEvent(u) == history[u][Len(history[u])]

\* C6: a Start under TerminateIfRunning that returns success out of
\* terminate-and-start has closed the prior run as terminated, with the terminate
\* event's details "New runID: <its run id>", and has made its own run the current
\* run.
C6_TerminateAndStartSucceeds ==
  [][\A r \in Requests :
       (Returns(r) /\ IsStart(rq[r]) /\ rq[r].pc \in {"tas_attempt", "tas_update"}
          /\ rq'[r].resp.status = "ok")
         => /\ current' = rq[r].runID
            /\ execs'[rq[r].target].closeStatus = WorkflowCloseStatusTerminated
            /\ history'[rq[r].target] # <<>>
            /\ history'[rq[r].target][Len(history'[rq[r].target])] =
                 Event("WorkflowExecutionTerminated",
                       getTerminateIfRunningDetails(rq[r].runID))]_vars

IdempotentStart(r) ==
  /\ rq[r].pc = "done" /\ IsStart(rq[r])
  /\ rq[r].resp.status = "ok"
  /\ rq[r].resp.runID # rq[r].runID

C8_ConflictReloadsAndRetries ==
  [][\A r \in Requests :
       /\ (StepOf(r) /\ rq[r].pc = "tas_update" /\ rq'[r].pc = "tas_attempt")
            => /\ rq'[r].rms.condition = execs'[rq[r].target].nextEventID
               /\ rq'[r].rms.events = <<>>
       /\ (Returns(r) /\ rq[r].pc = "tas_attempt"
             /\ rq'[r].resp.err = "ErrAlreadyCompleted")
            => ~IsWorkflowExecutionRunning(execs[rq[r].target])]_vars

\* C9: a Start with a new request id whose creation meets a current run written
\* at a version above the new mutable state's version fails with DomainNotActive
\* under every policy, and the store is left as it was.
C9_DomainNotActiveFirst ==
  [][\A r \in Requests :
       (StepOf(r) /\ IsStart(rq[r]) /\ rq[r].pc = "start_create" /\ DifferentRequest(r)
          /\ execs[current].lastWriteVersion > GetCurrentVersion(rq[r].newMS))
         => /\ rq'[r].pc = "done"
            /\ rq'[r].resp = Failure(Err("DomainNotActive"))
            /\ current' = current
            /\ execs' = execs
            /\ history' = history]_vars

\* a Start under TerminateIfRunning against a running run failed with DomainNotActive
C9_Witness ==
  \E r \in Requests :
    /\ rq[r].pc = "done" /\ IsStart(rq[r])
    /\ rq[r].policy = WorkflowIDReusePolicyTerminateIfRunning
    /\ rq[r].resp = Failure(Err("DomainNotActive"))
    /\ rq[r].t # Nil /\ rq[r].t.state = WorkflowStateRunning
    /\ current = rq[r].t.runID
    /\ IsWorkflowExecutionRunning(execs[current])

\* the reuse-policy table of the start-workflow state machine
ReusePolicyTable(state, closeStatus, policy) ==
  IF state \in {WorkflowStateCreated, WorkflowStateRunning}
    THEN IF policy = WorkflowIDReusePolicyTerminateIfRunning
           THEN "terminate-and-start" ELSE "WorkflowExecutionAlreadyStarted"
  ELSE IF state = WorkflowStateCompleted
    THEN IF policy \in {WorkflowIDReusePolicyAllowDuplicate,
                        WorkflowIDReusePolicyTerminateIfRunning}
           THEN "workflow-id-reuse"
         ELSE IF policy = WorkflowIDReusePolicyAllowDuplicateFailedOnly
           THEN IF closeStatus \in {WorkflowCloseStatusFailed, WorkflowCloseStatusCanceled,
                                    WorkflowCloseStatusTerminated, WorkflowCloseStatusTimedOut}
                  THEN "workflow-id-reuse" ELSE "WorkflowExecutionAlreadyStarted"
         ELSE "WorkflowExecutionAlreadyStarted"
  ELSE "InternalServiceError"

\* C5: for a Start that met a run created by another request id, the decision is
\* the reuse-policy table for every prior state, prior close status and policy.
C5_ReusePolicyTable ==
  polOut # Nil =>
    polOut.decision = ReusePolicyTable(polIn.state, polIn.closeStatus, polIn.policy)

\* AllowDuplicateFailedOnly accepted a prior run that timed out
C5_Witness ==
  /\ polOut # Nil
  /\ polOut.decision = "workflow-id-reuse"
  /\ polIn.policy = WorkflowIDReusePolicyAllowDuplicateFailedOnly
  /\ polIn.state = WorkflowStateCompleted
  /\ polIn.closeStatus = WorkflowCloseStatusTimedOut

\* the pending activities the token designates: by schedule id, or by activity id
\* when the token has no schedule id
Designated(token, ms) ==
  IF token.ScheduleID # EmptyEventID
    THEN GetActivityInfo(ms, token.ScheduleID)
    ELSE GetActivityByActivityID(ms, token.ActivityID)
AttemptMismatch(token, ms) ==
  \E ai \in Designated(token, ms) : ai.Attempt # token.ScheduleAttempt
\* the call neither completes the activity nor returns anything but ActivityTaskNotFound
NotFoundAndUnchanged ==
  /\ act'.store.pendingActivities = act.store.pendingActivities
  /\ act'.store.events = act.store.events
  /\ (act.pc # "done" /\ act'.pc = "done") => act'.err = "ActivityTaskNotFound"

\* C10: a RespondActivityTaskCompleted whose token carries a schedule attempt
\* different from the attempt of the pending activity it designates, by schedule id
\* or by activity id, fails with ActivityTaskNotFound, appends no
\* ActivityTaskCompleted event and leaves the activity pending.
C10_AttemptMismatchNotFound ==
  [][AttemptMismatch(act.token, act.store) => NotFoundAndUnchanged]_vars

\* C10 as the code has it: on a running run, for a token that carries a schedule
\* id whose attempt differs from the attempt of the pending activity with that
\* schedule id, the call fails with ActivityTaskNotFound, appends no
\* ActivityTaskCompleted event and leaves the activity pending.
C10_ScheduleIDAttemptMismatchNotFound ==
  [][(/\ act.store.running
      /\ act.token.ScheduleID # EmptyEventID
      /\ AttemptMismatch(act.token, act.store)) => NotFoundAndUnchanged]_vars

\* a call with a stale attempt for a started activity has returned ActivityTaskNotFound
C10_Witness ==
  /\ act # Nil
  /\ act.pc = "done"
  /\ act.err = "ActivityTaskNotFound"
  /\ act.store.running
  /\ act.token.ScheduleID # EmptyEventID
  /\ \E ai \in GetActivityInfo(act.store, act.token.ScheduleID) :
       ai.StartedID # EmptyEventID /\ ai.Attempt # act.token.ScheduleAttempt

\* an activity info without what a heartbeat records
WithoutProgress(ai) == [ai EXCEPT !.Details = "", !.LastHeartBeatUpdatedTime = 0]
IsHeartbeat == act.handler = "RecordActivityTaskHeartbeat"
CommitSucceeds == act.pc = "commit" /\ act'.pc = "done" /\ act'.err = ""

\* C11: no step of RecordActivityTaskHeartbeat appends a history event or changes
\* whether the run is running, its next-event id, its pending decision or which
\* activities are pending; the only change, made by the successful commit, is the
\* designated activity's heartbeat time and details, and the response's
\* cancelRequested is that activity's flag.
C11_HeartbeatChangesOnlyProgress ==
  [][IsHeartbeat =>
       /\ act'.store.events = act.store.events
       /\ act'.store.running = act.store.running
       /\ act'.store.pendingDecision = act.store.pendingDecision
       /\ act'.written = act.written => act'.store.nextEventID = act.store.nextEventID
       /\ {WithoutProgress(ai) : ai \in act'.store.pendingActivities} =
            {WithoutProgress(ai) : ai \in act.store.pendingActivities}
       /\ act'.store.pendingActivities # act.store.pendingActivities => CommitSucceeds
       /\ CommitSucceeds =>
            \E ai \in Designated(act.token, act.store) :
              /\ act'.store.pendingActivities =
                   (act.store.pendingActivities \ {ai}) \cup
                     {[ai EXCEPT !.Details = act.token.Details,
                                 !.LastHeartBeatUpdatedTime = 1]}
              /\ recordActivityTaskHeartbeatResponse(act'.err, act'.cancelRequested) =
                   [CancelRequested |-> ai.CancelRequested]]_vars

\* a heartbeat for an activity whose cancellation was requested has been recorded
C11_Witness ==
  /\ act # Nil
  /\ act.handler = "RecordActivityTaskHeartbeat"
  /\ act.pc = "done" /\ act.err = ""
  /\ act.cancelRequested
  /\ \E ai \in act.store.pendingActivities :
       ai.CancelRequested /\ ai.LastHeartBeatUpdatedTime = 1 /\ ai.Details = "d1"

\* the order of checks of C12; "" when none fires
ChecksAsStated(handler, token, ms) ==
  LET found == IF handler = "RecordActivityTaskStarted"
                 THEN GetActivityInfo(ms, token.ScheduleID)
                 ELSE Designated(token, ms)
      byScheduleID == token.ScheduleID # EmptyEventID
  IN  IF ~ms.running THEN "AlreadyCompleted"
      ELSE IF found = {} /\ byScheduleID /\ token.ScheduleID >= ms.nextEventID
        THEN "StaleState"
      ELSE IF found = {} THEN "ActivityTaskNotFound"
      ELSE IF handler = "RecordActivityTaskStarted"
        THEN IF \E ai \in found : ai.StartedID # EmptyEventID /\ ai.RequestID # token.RequestID
               THEN "ActivityTaskNotFound" ELSE ""
      ELSE IF \E ai \in found : ai.StartedID = EmptyEventID \/ ai.Attempt # token.ScheduleAttempt
        THEN "ActivityTaskNotFound"
      ELSE ""

\* the order of checks as the handlers make them
ChecksAsCoded(handler, token, ms) ==
  LET found == IF handler = "RecordActivityTaskStarted"
                 THEN GetActivityInfo(ms, token.ScheduleID)
                 ELSE Designated(token, ms)
      byScheduleID == token.ScheduleID # EmptyEventID
  IN  IF ~ms.running THEN "AlreadyCompleted"
      ELSE IF handler # "RecordActivityTaskStarted" /\ ~byScheduleID /\ found = {}
        THEN "BadRequest"
      ELSE IF found = {} /\ byScheduleID /\ token.ScheduleID >= ms.nextEventID
        THEN "StaleState"
      ELSE IF found = {} THEN "ActivityTaskNotFound"
      ELSE IF handler = "RecordActivityTaskStarted"
        THEN IF \E ai \in found : ai.StartedID # EmptyEventID /\ ai.RequestID # token.RequestID
               THEN "EventAlreadyStarted" ELSE ""
      ELSE IF \E ai \in found :
                \/ ai.StartedID = EmptyEventID
                \/ (byScheduleID /\ ai.Attempt # token.ScheduleAttempt)
        THEN "ActivityTaskNotFound"
      ELSE ""

\* one run of a handler's action answers with the check that fires: the stale-state
\* sentinel stays in the driver, any other error is returned with the mutable
\* state as it was, and without a check the mutation goes to the commit
ActionAnswers(check) ==
  (act.pc = "action" /\ act'.written = act.written) =>
    /\ check = "" => act'.pc = "commit"
    /\ check = "StaleState" =>
         /\ act'.pc \in {"action", "done"}
         /\ act'.pc = "done" => act'.err = "MaxAttemptsExceeded"
         /\ act'.store.events = act.store.events
    /\ check \notin {"", "StaleState"} =>
         /\ act'.pc = "done" /\ act'.err = check
         /\ act'.store = act.store

\* C12: in each of the five activity handlers the checks are made in the stated
\* order, with ActivityTaskNotFound for a missing activity, an activity already
\* started by another request (RecordActivityTaskStarted), an activity not yet
\* started (the others) or an attempt mismatch, and no event is appended when a
\* check fires.
C12_ChecksInOrder ==
  [][ActionAnswers(ChecksAsStated(act.handler, act.token, act.ms))]_vars

\* C12 as the code has it: (1) not running gives AlreadyCompleted; a token without
\* schedule id whose activity id designates no pending activity gives BadRequest;
\* (2) missing and schedule id >= next-event id gives the stale-state sentinel;
\* (3) missing gives ActivityTaskNotFound; RecordActivityTaskStarted gives
\* EventAlreadyStarted for an activity started by another request and compares no
\* attempt; the others give ActivityTaskNotFound for an activity not yet started
\* or, when the token has a schedule id, an attempt mismatch; no event is
\* appended when a check fires.
C12_ChecksInOrderAsCoded ==
  [][ActionAnswers(ChecksAsCoded(act.handler, act.token, act.ms))]_vars

\* RespondActivityTaskCanceled met an attempt mismatch on a started activity
C12_Witness ==
  /\ act # Nil
  /\ act.handler = "RespondActivityTaskCanceled"
  /\ act.pc = "done" /\ act.err = "ActivityTaskNotFound"
  /\ act.store.running /\ act.store.events = <<>>
  /\ \E ai \in GetActivityInfo(act.store, act.token.ScheduleID) :
       ai.StartedID # EmptyEventID /\ ai.Attempt # act.token.ScheduleAttempt

\* C13: a poll that subscribed returns a response only when the response shows
\* a next-event id above the expectation or a run no longer running, or when the
\* timer fires; otherwise it ends with the branch-token or the context error. With
\* an expectation below the next-event id, with expected id 0, or on a run not
\* running, the first load returns without subscribing.
C13_PollBlocksUntilProgress ==
  [][/\ (poll.pc # "done" /\ poll'.pc = "done") =>
          /\ poll'.err = "" =>
               \/ pollSatisfied(expectedNextEventID(poll'.request), poll'.response)
               \/ poll'.cause = "timer"
          /\ poll'.err # "" => poll'.err \in {"CurrentBranchChanged", "context"}
     /\ (/\ poll.pc = "ready" /\ poll'.pc # "ready"
         /\ poll.request.CurrentBranchToken \in {"", poll.store.branch}
         /\ \/ poll.request.ExpectedNextEventID < poll.store.nextEventID
            \/ ~poll.store.running) =>
          /\ poll'.pc = "done" /\ poll'.err = ""
          /\ poll'.response = getMutableState(poll.store)
          /\ ~poll'.subscribed
     /\ (poll.pc = "ready" /\ poll'.pc = "watch") =>
          /\ poll.request.ExpectedNextEventID >= poll.store.nextEventID
          /\ poll.store.running]_vars

\* a poll that waited was released by the notification of a commit
C13_Witness ==
  /\ poll # Nil
  /\ poll.pc = "done" /\ poll.cause = "notification" /\ poll.err = ""
  /\ poll.response.NextEventID > poll.request.ExpectedNextEventID
  /\ poll.response.IsWorkflowRunning

\* a commit has raised the next-event id of the run above the expectation
RaisedAboveExpectation ==
  poll.store.nextEventID > expectedNextEventID(poll.request)
\* a notification that releases the poll is on its way to it
WakeUpPending ==
  \E n \in {poll.inflight[i] : i \in 1 .. Len(poll.inflight)}
             \cup {poll.channel[i] : i \in 1 .. Len(poll.channel)} :
    \/ pollSatisfied(expectedNextEventID(poll.request),
                     [NextEventID |-> n.NextEventID, IsWorkflowRunning |-> n.IsWorkflowRunning])
    \/ n.CurrentBranchToken # poll.request.CurrentBranchToken

\* C14: whenever the poll waits while a commit has raised the next-event id above
\* the expectation, a notification that releases it is on its way, whether the
\* commit came before the first load, before the subscription or after it; and
\* the waiting poll returns without the timer having to fire.
C14_NoMissedWakeUp ==
  /\ []((poll.pc = "wait" /\ RaisedAboveExpectation) => WakeUpPending)
  /\ ((poll.pc = "wait" /\ RaisedAboveExpectation) ~> (poll.pc = "done"))

\* a commit between the first load and the subscription released the poll at the
\* second load
C14_Witness ==
  /\ poll # Nil
  /\ poll.pc = "done" /\ poll.cause = "recheck" /\ poll.err = ""
  /\ poll.response.NextEventID > poll.request.ExpectedNextEventID
  /\ poll.response.IsWorkflowRunning

\* query i is routed in this step
Routed(i) == qry.q[i].pc = "locked" /\ qry'.q[i].pc # "locked"
\* the conditions of a direct dispatch, as they are while the lock is held
DirectConditions(i) ==
  \/ ~qry.domainActive
  \/ ~qry.ms.running
  \/ qry.q[i].level = QueryConsistencyLevelEventual
  \/ (~qry.ms.pendingDecision /\ ~qry.ms.inFlightDecision)

C16_AnsweredAfterTermination ==
  [][\A i \in Queries : (qry.q[i].pc = "wait" /\ qry'.q[i].pc = "done") =>
       /\ ~(qry.registry[i] \in TerminationStates) =>
            /\ qry'.q[i].err = "context"
            /\ ~qry'.q[i].dispatched /\ qry'.q[i].response = ""
       /\ qry'.q[i].response = "QueryResult" => qry.registry[i] = "CompletedAnswered"
       /\ qry'.q[i].dispatched => qry.registry[i] = "Unblocked"
       /\ (qry'.q[i].response = "" /\ qry'.q[i].err = "") => FALSE]_vars

\* a buffered strong query was unblocked and then answered by matching
C16_Witness ==
  /\ qry # Nil
  /\ \E i \in Queries :
       /\ qry.q[i].level = QueryConsistencyLevelStrong /\ qry.q[i].buffered
       /\ qry.q[i].pc = "done" /\ qry.q[i].termination = "Unblocked"
       /\ qry.q[i].dispatched /\ qry.q[i].response = "MatchingResponse"

\* C17: the registry of the run never holds more than MaxBufferedQueryCount
\* buffered queries; a query that finds it full fails with
\* ConsistentQueryBufferExceeded and is not added.
C17_BufferBounded ==
  /\ Cardinality(GetBufferedIDs(qry.registry)) <= MaxBufferedQueryCount
  /\ \A i \in Queries : qry.q[i].err = "ErrConsistentQueryBufferExceeded" =>
       /\ ~qry.q[i].buffered /\ qry.registry[i] = "None"
       /\ ~qry.q[i].safe /\ ~qry.q[i].dispatched

\* a query failed on the full registry
C17_Witness ==
  /\ qry # Nil
  /\ \E i \in Queries :
       /\ qry.q[i].err = "ErrConsistentQueryBufferExceeded"
       /\ Cardinality(GetBufferedIDs(qry.registry)) = MaxBufferedQueryCount

\* C18: the release function of every lock acquisition is called exactly once:
\* never twice, and once when the operation has returned.
C18_ReleasedExactlyOnce ==
  qry # Nil =>
    \A i \in Queries :
      /\ qry.q[i].released <= 1
      /\ qry.q[i].pc = "done" => qry.q[i].released = 1

\* the internal errors of the load-mutate-commit cycle
InternalErrors == {"ErrStaleState", "ErrConflict"}

\* C19: no request of the engine returns the stale-state error or the conflict
\* error of the optimistic update to its caller.
C19_InternalErrorsNeverSurface ==
  \A r \in Requests : rq[r].resp.status = "error" => rq[r].resp.err \notin InternalErrors

\* C20: the prepare callback locks task processing on the transfer and on the
\* timer processor, the commit callback unlocks both on every path, and between
\* complete prepare/commit pairs neither processor is locked nor has either been
\* unlocked more often than locked.
C20_FailoverLocksBalanced ==
  /\ [](fo # Nil =>
          /\ fo.txProcessor.locked >= 0 /\ fo.timerProcessor.locked >= 0
          /\ fo.phase = "idle" =>
               (fo.txProcessor.locked = 0 /\ fo.timerProcessor.locked = 0))
  /\ [][/\ (fo.phase = "idle" /\ fo'.phase = "prepared") =>
              /\ fo'.txProcessor.locked = fo.txProcessor.locked + 1
              /\ fo'.timerProcessor.locked = fo.timerProcessor.locked + 1
        /\ (fo.phase = "prepared" /\ fo'.phase = "idle") =>
              /\ fo'.path \in {"no_next_domains", "no_failover", "marker_failure", "success"}
              /\ fo'.txProcessor.locked = fo.txProcessor.locked - 1
              /\ fo'.timerProcessor.locked = fo.timerProcessor.locked - 1]_vars

\* prepare/commit pairs have left the commit callback on each of its paths
C20_Witness ==
  /\ fo # Nil
  /\ fo.phase = "idle"
  /\ fo.paths = {"no_next_domains", "no_failover", "marker_failure", "success"}
  /\ fo.txProcessor.locked = 0 /\ fo.timerProcessor.locked = 0

\* the latest call of the commit callback
LastCall == fo.calls[Len(fo.calls)]
\* the next domains that become active in this cluster, for the version of the
\* shard read at the start of the commit
BecomingActive(call) ==
  {d.ID : d \in {d \in {call.nextDomains[k] : k \in 1 .. Len(call.nextDomains)} :
                   /\ d.IsGlobalDomain
                   /\ d.FailoverNotificationVersion >= call.shardNotificationVersion
                   /\ d.activeHere}}

\* C21: the commit callback calls FailoverDomain on both processors with exactly
\* the next domains that are global, have a failover-notification version at or
\* above the version of the shard and are active in this cluster, and notifies
\* each processor once; for an empty set it makes neither call.
C21_FailoverDomainOnBecomingActive ==
  (fo # Nil /\ fo.phase = "idle" /\ fo.calls # <<>>) =>
    \A processor \in {fo.txProcessor, fo.timerProcessor} :
      IF BecomingActive(LastCall) # {}
        THEN /\ processor.failoverCalls = 1
             /\ processor.failoverDomainIDs = BecomingActive(LastCall)
             /\ processor.notified = 1
        ELSE processor.failoverCalls = 0 /\ processor.notified = 0

\* a commit failed over one of its two next domains
C21_Witness ==
  /\ fo # Nil /\ fo.phase = "idle" /\ fo.calls # <<>>
  /\ Len(LastCall.nextDomains) = 2 /\ BecomingActive(LastCall) = {"d2"}
  /\ fo.txProcessor.failoverCalls = 1 /\ fo.timerProcessor.notified = 1

\* C22: a commit that fails on the insertion of the failover markers leaves the
\* version of the shard as it was, and the next commit with the same next domains
\* selects the same domains for failover and for markers.
C22_MarkerFailureRetries ==
  (fo # Nil /\ fo.phase = "idle") =>
    /\ (fo.calls # <<>> /\ LastCall.path = "marker_failure") =>
          fo.shardNotificationVersion = LastCall.shardNotificationVersion
    /\ (/\ Len(fo.calls) = 2
        /\ fo.calls[1].path = "marker_failure"
        /\ fo.calls[2].nextDomains = fo.calls[1].nextDomains) =>
          /\ fo.calls[2].failoverDomainIDs = fo.calls[1].failoverDomainIDs
          /\ fo.calls[2].failoverMarkerTasks = fo.calls[1].failoverMarkerTasks

\* a commit failed on the markers of a domain and the next commit, with the same
\* domains, inserted them
C22_Witness ==
  /\ fo # Nil /\ fo.phase = "idle" /\ Len(fo.calls) = 2
  /\ fo.calls[1].path = "marker_failure"
  /\ fo.calls[2].nextDomains = fo.calls[1].nextDomains
  /\ fo.calls[1].failoverDomainIDs # {}
  /\ fo.calls[2].path = "success"
  /\ fo.markers = fo.calls[1].failoverMarkerTasks

\* the largest notification version of the next domains of a call
MaxNextNotificationVersion(call) ==
  CHOOSE v \in 0 .. MaxNotificationVersion :
    /\ \E k \in 1 .. Len(call.nextDomains) : call.nextDomains[k].NotificationVersion = v
    /\ \A k \in 1 .. Len(call.nextDomains) : call.nextDomains[k].NotificationVersion <= v

\* C23: after a commit with next domains that did not fail on the markers, the
\* version of the shard is the largest notification version of the next domains
\* plus one, in whatever order they are listed.
C23_VersionIsMaxPlusOne ==
  (/\ fo # Nil /\ fo.phase = "idle" /\ fo.calls # <<>>
   /\ LastCall.nextDomains # <<>> /\ LastCall.path # "marker_failure") =>
     fo.shardNotificationVersion = MaxNextNotificationVersion(LastCall) + 1

\* C24: the version of the shard never decreases over the failover callbacks.
C24_VersionNeverDecreases ==
  [][fo'.shardNotificationVersion >= fo.shardNotificationVersion]_vars

\* the branch token the poll compares with: the caller's, or the one of the
\* first load when the caller gave none
CallerBranch(p) ==
  IF p.pc = "ready" /\ p.request.CurrentBranchToken = ""
    THEN p.store.branch
    ELSE p.request.CurrentBranchToken
\* the poll reads a notification in this step
ReadsNotification ==
  /\ poll.pc = "wait" /\ poll.channel # <<>>
  /\ \/ poll'.cause = "notification"
     \/ (poll'.pc = "wait" /\ poll'.channel = Tail(poll.channel))

\* C25: the poll fails with CurrentBranchChanged when the branch token it compares
\* with differs from the branch token of the run at the first load or at the
\* second load, or from the branch token of a notification it reads; a response
\* it returns carries the state of the branch of the caller only.
C25_BranchChangeFailsPoll ==
  [][/\ (/\ poll.pc \in {"ready", "recheck"} /\ poll'.pc # poll.pc
         /\ CallerBranch(poll) # poll.store.branch) =>
            (poll'.pc = "done" /\ poll'.err = "CurrentBranchChanged" /\ poll'.response = Nil)
     /\ (ReadsNotification /\ Head(poll.channel).CurrentBranchToken # CallerBranch(poll)) =>
            (poll'.pc = "done" /\ poll'.err = "CurrentBranchChanged" /\ poll'.response = Nil)
     /\ (poll.pc # "done" /\ poll'.pc = "done" /\ poll'.err = "") =>
            /\ poll'.response.CurrentBranchToken = CallerBranch(poll)
            /\ poll'.stateBranch = CallerBranch(poll)]_vars

\* a waiting poll read the notification of a commit on another branch
C25_Witness ==
  /\ poll # Nil
  /\ poll.pc = "done" /\ poll.cause = "notification"
  /\ poll.err = "CurrentBranchChanged"
  /\ poll.request.CurrentBranchToken = "b1" /\ poll.store.branch = "b2"

\* C26: a direct dispatch whose sticky dispatch ended with deadline-exceeded on a
\* running run attempts to clear the stickiness and then makes the non-sticky
\* dispatch whatever the clearing answered, as long as the context is valid.
C26_ClearStickinessBestEffort ==
  qry # Nil =>
    \A i \in Queries :
      (/\ qry.q[i].pc = "done" /\ qry.q[i].dispatched
       /\ qry.q[i].direct.sticky /\ qry.q[i].direct.stickyErr = "DeadlineExceeded"
       /\ qry.q[i].direct.running /\ qry.q[i].direct.ctxErr = "") =>
         (qry.q[i].direct.cleared /\ qry.q[i].direct.nonSticky)

\* the events SignalWithStart is to append to a running run
SignalEvents(pendingDecision) ==
  IF pendingDecision
    THEN <<Event("WorkflowExecutionSignaled", "")>>
    ELSE <<Event("WorkflowExecutionSignaled", ""), Event("DecisionTaskScheduled", "")>>
IsSignalWithStart(q) == q.kind = "SignalWithStart"

\* C27: SignalWithStart that loads a running run under a policy other than
\* TerminateIfRunning, with the signal count below the limit, goes on to the
\* commit; its commit appends one WorkflowExecutionSignaled event, followed by a
\* DecisionTaskScheduled event iff none was pending, and it returns the id of
\* that run, creates no run and leaves the current run as it is.
C27_SignalRunningRun ==
  [][\A r \in Requests :
       /\ (/\ StepOf(r) /\ IsSignalWithStart(rq[r]) /\ rq[r].pc = "sws_load"
           /\ IsWorkflowExecutionRunning(LoadWorkflowExecution(rq[r].target))
           /\ rq[r].policy # WorkflowIDReusePolicyTerminateIfRunning
           /\ LoadWorkflowExecution(rq[r].target).signalCount < MaximumSignalsPerExecution)
            => (rq'[r].pc = "sws_update" /\ execs' = execs /\ history' = history)
       /\ (/\ Returns(r) /\ IsSignalWithStart(rq[r]) /\ rq[r].pc = "sws_update"
           /\ rq'[r].resp.status = "ok")
            => LET u == rq[r].target
               IN  /\ rq'[r].resp.runID = u
                   /\ history'[u] = history[u] \o SignalEvents(execs[u].pendingDecision)
                   /\ execs'[u].signalCount = execs[u].signalCount + 1
                   /\ execs'[u].pendingDecision
                   /\ IsWorkflowExecutionRunning(execs'[u])
                   /\ \A v \in Runs \ {u} : execs'[v] = execs[v] /\ history'[v] = history[v]
                   /\ current' = current]_vars

\* SignalWithStart signalled a running run that had no pending decision
C27_Witness ==
  \E r \in Requests :
    /\ IsSignalWithStart(rq[r]) /\ rq[r].pc = "done" /\ rq[r].resp.status = "ok"
    /\ rq[r].resp.runID = rq[r].target /\ rq[r].target = current
    /\ Len(history[current]) >= 3
    /\ history[current][Len(history[current]) - 1] = Event("WorkflowExecutionSignaled", "")
    /\ LastEvent(current) = Event("DecisionTaskScheduled", "")

\* a reset answers in this step
ResetAnswers == Len(rst'.calls) = Len(rst.calls) + 1
ResetAnswer == rst'.calls[Len(rst'.calls)]
\* the answer to a duplicate: the current run, and nothing done
AnsweredAsDuplicate ==
  /\ ResetAnswer.status = "ok" /\ ResetAnswer.runID = rst.current
  /\ ~ResetAnswer.resetter
  /\ rst'.runs = rst.runs /\ rst'.current = rst.current

\* C28: a reset whose request id is the create-request id of the current run
\* returns the id of the current run without the resetter, creates and closes no
\* run, and the repetition of a reset that succeeded returns the same run id.
C28_ResetIdempotent ==
  [][(ResetAnswers /\ ResetAnswer.request.requestID = rst.runs[rst.current].createRequestID)
        => AnsweredAsDuplicate]_vars

\* the base run of the request has had a decision and the decision-finish id lies
\* in (1, next-event id of the base run]
ResetBoundaryValid(request) ==
  /\ rst.runs[request.baseRunID].HasProcessedOrPendingDecision
  /\ request.decisionFinishEventID > 1
  /\ request.decisionFinishEventID <= rst.runs[request.baseRunID].nextEventID

\* C28 as the code has it: the request must first pass the checks of the base
\* run; the repetition of a reset that succeeded, while the run it returned is
\* still the current run, returns that run again.
C28_ValidResetIdempotent ==
  [][ResetAnswers =>
       /\ (/\ ResetBoundaryValid(ResetAnswer.request)
           /\ ResetAnswer.request.requestID = rst.runs[rst.current].createRequestID)
            => AnsweredAsDuplicate
       /\ \A k \in 1 .. Len(rst.calls) :
            (/\ rst.calls[k].request = ResetAnswer.request
             /\ rst.calls[k].status = "ok"
             /\ rst.calls[k].runID = rst.current)
              => AnsweredAsDuplicate]_vars

\* a reset forked a new run and its two repetitions returned that run
C28_Witness ==
  /\ rst # Nil /\ Len(rst.calls) = 3
  /\ rst.calls[1].resetter /\ rst.calls[1].status = "ok"
  /\ \A k \in 2 .. 3 :
       /\ rst.calls[k].request = rst.calls[1].request
       /\ rst.calls[k].status = "ok" /\ rst.calls[k].runID = rst.calls[1].runID
       /\ ~rst.calls[k].resetter
  /\ rst.current = 1 /\ rst.runs[2] = Nil

\* a ReapplyEvents call returns in this step
ReapplyAnswers == rap'.calls = rap.calls + 1
\* the ids of the events of the call that the filter drops
FilteredIDs ==
  {NewEventReappliedID(rap'.call.runID, rap'.call.events[i]) :
     i \in {j \in 1 .. Len(rap'.call.events) :
              \/ rap'.call.events[j].version = rap.ms.lastWriteVersion
              \/ NewEventReappliedID(rap'.call.runID, rap'.call.events[j])
                   \in rap.ms.duplicated}}
AllIDs ==
  {NewEventReappliedID(rap'.call.runID, rap'.call.events[i]) :
     i \in 1 .. Len(rap'.call.events)}

\* C29: an event of the target run's last-write version, or one already recorded
\* as reapplied, is never appended again and never triggers a reset; a call left
\* without events after the filter commits nothing and returns no error; an event
\* appended to the running run is appended once and recorded.
C29_ReappliedAtMostOnce ==
  [][ReapplyAnswers =>
       /\ \A d \in FilteredIDs :
            /\ d \notin rap'.call.reappliedEvents
            /\ rap'.ms.runID = rap.ms.runID => rap'.ms.signaled[d] = rap.ms.signaled[d]
       /\ rap'.call.outcome = "reset" => AllIDs \ FilteredIDs # {}
       /\ (rap'.call.domain = "active" /\ AllIDs \subseteq FilteredIDs)
            => /\ rap'.call.outcome = "noop" /\ rap'.call.err = ""
               /\ ~rap'.call.committed /\ rap'.ms = rap.ms
       /\ \A d \in rap'.call.reappliedEvents :
            /\ d \notin rap.ms.duplicated /\ d \in rap'.ms.duplicated
            /\ rap'.ms.signaled[d] = rap.ms.signaled[d] + 1]_vars

\* a call whose events were reapplied by an earlier call and are now all dropped
C29_Witness ==
  /\ rap # Nil /\ rap.calls >= 2
  /\ rap.call.outcome = "noop" /\ rap.call.domain = "active"
  /\ Len(rap.call.events) = MaxReapplyEvents
  /\ \E i \in 1 .. Len(rap.call.events) :
       /\ rap.call.events[i].version # rap.ms.lastWriteVersion
       /\ rap.ms.signaled[NewEventReappliedID(rap.call.runID, rap.call.events[i])] = 1
  /\ \E i \in 1 .. Len(rap.call.events) :
       rap.call.events[i].version = rap.ms.lastWriteVersion

\* C30: the timeout of the acquisition of the current-run lock is 500 ms for a
\* caller without deadline, and otherwise exceeds neither 500 ms nor the time
\* remaining until the caller's deadline; an acquisition that exceeds it fails
\* with ConcurrentStartRequest and persists nothing.
C30_LockTimeoutIsMin ==
  ctxt.pc # "start" =>
    /\ ~ctxt.hasDeadline => ctxt.ctxTimeout = contextLockTimeout
    /\ ctxt.hasDeadline =>
         /\ ctxt.ctxTimeout <= contextLockTimeout
         /\ ctxt.ctxTimeout <= ctxt.parentTimeout
    /\ ctxt.pc = "exceeded" =>
         ctxt.err = "ConcurrentStartRequest" /\ ~ctxt.persisted

\* C31: a cancellation of the caller's context during the wait for the
\* current-run lock ends the wait, and the start returns that cancellation as
\* its error.
C31_CancellationEndsLockWait ==
  (ctxt.pc \in {"returned", "exceeded"} /\ ctxt.parentDone) => ctxt.err = "Canceled"

\* the first-decision backoff as the claim gives it
ClaimedBackoff(startRequest) ==
  IF startRequest.delayStartSeconds > 0 THEN startRequest.delayStartSeconds
                                        ELSE startRequest.cronBackoffSeconds

\* C32: with a retry policy whose expiration interval is above 0 the expiration
\* timestamp is now plus (expiration interval + first-decision backoff) seconds;
\* without retry policy or with interval 0 there is no expiration timestamp; with
\* DelayStartSeconds and the cron backoff both above 0 the call fails with
\* ErrDelayStartSeconds.
C32_ExpirationTimestamp ==
  util.pc = "returned" =>
    LET startRequest == util.startRequest
        backoff == ClaimedBackoff(startRequest)
    IN  IF startRequest.delayStartSeconds > 0 /\ startRequest.cronBackoffSeconds > 0
          THEN util.out.err = "ErrDelayStartSeconds"
        ELSE IF startRequest.hasRetryPolicy /\ startRequest.expirationIntervalInSeconds > 0
          THEN /\ util.out.err = "" /\ util.out.hasExpirationTimestamp
               /\ startRequest.expirationIntervalInSeconds <= MaxInt32 - backoff
               /\ util.out.ExpirationTimestamp =
                    Time(util.now.sec + startRequest.expirationIntervalInSeconds + backoff,
                         util.now.nsec)
        ELSE util.out.err = "" /\ ~util.out.hasExpirationTimestamp

\* C40: CheckEventBlobSizeLimit returns ErrBlobSizeExceedsLimit if and only if
\* actualSize exceeds errorLimit, whatever warnLimit is, and nil otherwise.
C40_ErrorIffAboveErrorLimit ==
  util.pc = "returned" =>
    util.err = IF util.actualSize > util.errorLimit THEN "ErrBlobSizeExceedsLimit" ELSE ""

\* C33: terminate-and-start answers with the new run id only when the
\* update-with-new-as-active commit of one of its attempts succeeded, so that the
\* run it names was created; attempts that all end in stale state or conflict
\* end in an error.
C33_RunIDOnlyAfterCommit ==
  [][\A r \in Requests :
       (Returns(r) /\ rq[r].pc \in {"tas_attempt", "tas_update"}
          /\ rq'[r].resp.status = "ok")
         => /\ rq[r].pc = "tas_update"
            /\ execs[rq[r].runID] = Nil /\ execs'[rq[r].runID] # Nil]_vars

\* C34: after a stale-state answer of the terminate event the context is cleared
\* and, on every attempt but the last, the prior run is reloaded, and the next
\* attempt works on the reloaded mutable state; there are never more than
\* ConditionalRetryCount attempts.
C34_StaleReloadsAndRetries ==
  [][\A r \in Requests :
       (StepOf(r) /\ rq[r].pc = "tas_attempt" /\ rq'[r].pc = "tas_attempt")
         => /\ rq'[r].attempt = rq[r].attempt + 1
            /\ rq'[r].attempt < ConditionalRetryCount
            /\ cached'[rq[r].target] = LoadFromStore(rq[r].target)
            /\ rq'[r].rms = cached'[rq[r].target]]_vars

\* the action of RespondActivityTaskFailed returns without error in this step
FailedActionApplies ==
  /\ act.handler = "RespondActivityTaskFailed"
  /\ act.pc = "action" /\ act'.pc = "commit"

\* C36: RespondActivityTaskFailed on a started pending activity with matching
\* attempt appends ActivityTaskFailed and requests a decision task exactly when
\* RetryActivity reports no retry; when the activity is retried no event is
\* appended, no decision task is requested and the activity stays pending.
C36_FailedEventIffNoRetry ==
  [][FailedActionApplies =>
       \E ai \in Designated(act.token, act.ms) :
         /\ ai.StartedID # EmptyEventID
         /\ IF ai.HasRetryLeft
              THEN /\ act'.ms.events = act.ms.events
                   /\ act'.ms.nextEventID = act.ms.nextEventID
                   /\ act'.ms.pendingDecision = act.ms.pendingDecision
                   /\ \E next \in act'.ms.pendingActivities :
                        next.ScheduleID = ai.ScheduleID
              ELSE /\ Len(act'.ms.events) > Len(act.ms.events)
                   /\ SubSeq(act'.ms.events, 1, Len(act.ms.events) + 1) =
                        Append(act.ms.events,
                               [type |-> "ActivityTaskFailed",
                                scheduleID |-> ai.ScheduleID, startedID |-> ai.StartedID])
                   /\ \A k \in Len(act.ms.events) + 2 .. Len(act'.ms.events) :
                        act'.ms.events[k].type = "DecisionTaskScheduled"
                   /\ act'.ms.pendingDecision
                   /\ \A next \in act'.ms.pendingActivities :
                        next.ScheduleID # ai.ScheduleID]_vars

\* a failure answered by a retry was committed: the activity is pending as its
\* next attempt, and no event and no decision task came of it
C36_Witness ==
  /\ act # Nil
  /\ act.handler = "RespondActivityTaskFailed"
  /\ act.pc = "done" /\ act.err = ""
  /\ act.store.events = <<>> /\ ~act.store.pendingDecision
  /\ \E ai \in act.store.pendingActivities :
       ai.StartedID = EmptyEventID /\ ai.Attempt = MaxActivityAttempt + 1

\* C37: the subscription of a long poll is removed on each of its exit paths:
\* a poll that has returned holds no subscription on the notifier, and only a
\* poll between its subscription and its return holds one.
C37_SubscriptionReleased ==
  /\ poll.pc = "done" => ~poll.subscribed
  /\ poll.subscribed => poll.pc \in {"recheck", "wait"}

\* a poll that had subscribed has left through an error of the domain lookup
C37_Witness ==
  /\ poll # Nil
  /\ poll.pc = "done" /\ poll.cause = "domain" /\ poll.err = "DomainCacheError"
  /\ ~poll.subscribed

\* a signal with a request id is answered in this step, on a running run below
\* the signal limit, and neither the parent check nor the commit fails
SignalAccepted ==
  /\ sig'.calls = sig.calls + 1
  /\ sig'.call.kind = "signal" /\ sig'.call.requestID # ""
  /\ sig.ms.running
  /\ ~(sig.maxAllowedSignals > 0 /\ sig.ms.signalCount >= sig.maxAllowedSignals)
  /\ sig'.call.err \notin {"ErrParentMismatch", "UpdateWorkflowExecutionError"}

\* C38: on a running run below the signal limit the first signal with a request id
\* records the id and appends one WorkflowExecutionSignaled event, and every later
\* signal with the id, until the id is removed, succeeds without another signal
\* event; a request id never removed has at most one signal event.
C38_SignalDedupedByRequestID ==
  /\ [][SignalAccepted =>
          LET id == sig'.call.requestID
          IN  /\ sig'.call.err = ""
              /\ id \in sig'.ms.signalRequested
              /\ \A other \in SignalRequestIDs \ {id} :
                   sig'.ms.signaled[other] = sig.ms.signaled[other]
              /\ IF id \in sig.ms.signalRequested
                   THEN /\ sig'.ms.signaled[id] = sig.ms.signaled[id]
                        /\ sig'.ms.signalCount = sig.ms.signalCount
                   ELSE /\ sig'.ms.signaled[id] = sig.ms.signaled[id] + 1
                        /\ sig'.ms.signalCount = sig.ms.signalCount + 1]_vars
  /\ [](\A id \in SignalRequestIDs \ {""} :
          id \notin sig.removed => sig.ms.signaled[id] <= 1)

\* a request id was signalled in every call, and one signal event came of it
C38_Witness ==
  /\ sig # Nil
  /\ sig.calls = MaxSignalCalls /\ sig.removed = {}
  /\ sig.call.kind = "signal" /\ sig.call.duplicate /\ sig.call.err = ""
  /\ sig.ms.signaled[sig.call.requestID] = 1
  /\ sig.ms.signalCount = 1

\* C39: the failover callback is registered only after the transfer and the timer
\* processor have been started, and no call of the callback (LockTaskProcessing,
\* FailoverDomain, NotifyNewTask, UnlockTaskProcessing) is made on a processor
\* that engine Stop has stopped.
C39_CallbackWithinProcessorLifecycle ==
  /\ lif.registered => \A q \in QueueProcessors : lif.processor[q] # "created"
  /\ \A call \in lif.calls : call.state = "started"

\* the request whose lock request r awaits without bound, 0 for none: the lock
\* of a run is awaited under the caller's context, the lock of the slot under a
\* context that ends
LockAwaited(r) ==
  LET q == lck.rq[r]
  IN  IF q.pc = "lockRun" THEN lck.run[q.target]
      ELSE IF q.pc = "lockSlot" /\ ~lockSlotWaitBounded THEN lck.slot
      ELSE 0

RECURSIVE LockAwaitedAfter(_, _)
LockAwaitedAfter(r, k) ==
  IF r = 0 \/ k = 0 THEN r ELSE LockAwaitedAfter(LockAwaited(r), k - 1)

\* C35: no set of Start, SignalWithStart, Reset and Query requests is in a state
\* where each holds a lock of the execution cache and waits without bound for a
\* lock held by a request of the set.
C35_NoLockDeadlock ==
  \A r \in LockRequests : \A k \in 1 .. NumLockRequests : LockAwaitedAfter(r, k) # r

\* a SignalWithStart holds the lock of a run and awaits the slot, which a Start
\* holds that awaits the lock of that run
C35_Witness ==
  /\ lck # Nil
  /\ \E x \in LockRequests, s \in LockRequests :
       /\ lck.rq[x].kind = "signalWithStart" /\ lck.rq[x].pc = "lockSlot"
       /\ lck.rq[x].target # 0 /\ lck.run[lck.rq[x].target] = x
       /\ lck.slot = s
       /\ lck.rq[s].kind = "start" /\ lck.rq[s].pc = "lockRun"
       /\ lck.rq[s].target = lck.rq[x].target

====
